---- MODULE Spec2Model ----
(***************************************************************************)
(* Model of the consumption-derivation pipeline of the MSY inventory       *)
(* repository: intermediate_processing.py (sales x recipes -> consumption  *)
(* records -> monthly aggregates -> ingredient profiles -> saved tables),  *)
(* with the parts of data_cleaning.py that shape its inputs, and of        *)
(* advanced_analysis.py, which reads the saved tables and derives the      *)
(* anomaly, inventory, forecast and cost-efficiency tables of eda_output,  *)
(* and of dashboard.py, whose Overview and Inventory Management pages      *)
(* derive their inventory figures from those tables.                       *)
(*                                                                         *)
(* Data frames are sequences of records.  A missing cell (NaN / None) is   *)
(* the empty tuple and a present cell x is <<x>> wherever a column can     *)
(* hold both; item names are tuples of characters, so that surrounding     *)
(* whitespace is visible to the model.  Quantities are integers; means and  *)
(* quotients are fractions in lowest terms; a standard deviation is kept   *)
(* exactly, as the square root of a fraction (see "Numbers").              *)
(***************************************************************************)
EXTENDS Integers, Sequences, FiniteSets, TLC

VARIABLES
    monthly_sales_item,                \* cleaned_data/monthly_sales_item.csv
    ingredient_usage,                  \* cleaned_data/ingredient_usage_cleaned.csv
    shipment_data,                     \* cleaned_data/shipment_data_cleaned.csv
    pc,                                \* position of the script
    sales_ingredients,                 \* left merge of sales and recipes
    consumption_data,                  \* consumption_df (ConsumptionRecords)
    monthly_consumption,               \* MonthlyIngredientAggregate rows
    ingredient_summary,                \* IngredientProfile rows
    monthly_consumption_with_shipment, \* aggregates joined with shipments
    item_sales_with_ingredients,       \* item-level sales output
    processed_data,                    \* files of processed_data/ (<<>> = no file)
    key_statistics,                    \* the printed "Key Statistics" (<<>> = not printed)
    apc,                               \* position of advanced_analysis.py
    analysis_data,                     \* the tables advanced_analysis.py has read
    consumption_pivot,                 \* month x ingredient table of consumption
    anomalies,                         \* rows of the anomaly list
    inventory_df,                      \* inventory optimisation rows
    forecast_df,                       \* forecasting rows
    efficiency_analysis,               \* cost-efficiency rows, indexed by ingredient
    eda_output,                        \* files of eda_output/ (<<>> = no file)
    dashboard_data,                    \* the tables dashboard.py has cached (<<>> = none)
    page,                              \* the page dashboard.py rendered last
    inventory_status,                  \* rows of the page's inventory_status list
    health_score                       \* the Overview page's health score

vars == <<monthly_sales_item, ingredient_usage, shipment_data, pc,
          sales_ingredients, consumption_data, monthly_consumption,
          ingredient_summary, monthly_consumption_with_shipment,
          item_sales_with_ingredients, processed_data, key_statistics,
          apc, analysis_data, consumption_pivot, anomalies, inventory_df,
          forecast_df, efficiency_analysis, eda_output,
          dashboard_data, page, inventory_status, health_score>>

\* the state of advanced_analysis.py
analysis_vars ==
    <<apc, analysis_data, consumption_pivot, anomalies, inventory_df,
      forecast_df, efficiency_analysis, eda_output>>

\* the state of dashboard.py
dashboard_vars == <<dashboard_data, page, inventory_status, health_score>>

----------------------------------------------------------------------------
(* Bounds of the model *)

MaxSales == 2       \* rows of monthly_sales_item
MaxCount == 2       \* largest Count of a sales row
MaxRevenue == 3     \* largest Amount of a sales row
MaxAmount == 2      \* largest per-unit amount in a recipe
MaxQuantity == 2    \* largest quantity_per_shipment
MaxShipments == 1   \* rows of shipment_data

----------------------------------------------------------------------------
(* Generic helpers on data frames *)

NaN == <<>>

Range(s) == {s[i] : i \in DOMAIN s}

RECURSIVE ConcatAll(_)
\* pd.DataFrame(list) / list.append in a loop: the pieces in order
ConcatAll(ss) ==
    IF ss = <<>> THEN <<>> ELSE Head(ss) \o ConcatAll(Tail(ss))

RECURSIVE SumSeq(_)
\* Series.sum()
SumSeq(s) == IF s = <<>> THEN 0 ELSE Head(s) + SumSeq(Tail(s))

RECURSIVE Unique(_)
\* Series.unique(): distinct values in order of first appearance
Unique(s) ==
    IF s = <<>> THEN <<>>
    ELSE LET rest == Unique(SubSeq(s, 1, Len(s) - 1))
             x == s[Len(s)]
         IN IF x \in Range(rest) THEN rest ELSE Append(rest, x)

KeyLess(a, b) == a[1] < b[1] \/ (a[1] = b[1] /\ a[2] < b[2])

RECURSIVE Insert(_, _, _)
Insert(sorted, x, key) ==
    IF sorted = <<>> THEN <<x>>
    ELSE IF ~KeyLess(key[Head(sorted)], key[x]) THEN <<x>> \o sorted
    ELSE <<Head(sorted)>> \o Insert(Tail(sorted), x, key)

RECURSIVE SortValues(_, _)
\* DataFrame.sort_values on two key columns; key maps each row to its pair
SortValues(df, key) ==
    IF df = <<>> THEN <<>>
    ELSE Insert(SortValues(Tail(df), key), Head(df), key)

----------------------------------------------------------------------------
(* Program constants *)

month_order == <<"May", "June", "July", "August", "September", "October">>

\* the ingredient columns of ingredient_usage_cleaned.csv that are modelled,
\* in the column order of the file
ingredient_cols == <<"rice_g", "ramen_count">>

\* Python's string order (code points) on the month labels and column names
LexOrder == <<"August", "July", "June", "May", "October", "September",
              "ramen_count", "rice_g">>

StrRank(s) == CHOOSE i \in DOMAIN LexOrder : LexOrder[i] = s

MonthIndex(m) == (CHOOSE i \in DOMAIN month_order : month_order[i] = m) - 1

----------------------------------------------------------------------------
(* Inputs: the cleaned tables that data_cleaning.py leaves for the script *)

\* str.strip(): drop leading and trailing blanks
RECURSIVE LStrip(_)
LStrip(name) ==
    IF name # <<>> /\ Head(name) = " " THEN LStrip(Tail(name)) ELSE name

RECURSIVE RStrip(_)
RStrip(name) ==
    IF name # <<>> /\ name[Len(name)] = " "
    THEN RStrip(SubSeq(name, 1, Len(name) - 1)) ELSE name

Strip(name) == RStrip(LStrip(name))

\* item names as they stand in the sales sheets ("Item Name" values are copied
\* as read: only the column headers are stripped)
SalesNames == {<<"a">>, <<"a", " ">>, <<"b">>}

\* item names of the recipe sheet, in file order
RecipeNames == << <<"a">>, <<"b">> >>

Months == Range(month_order)

SalesRows ==
    [month : Months, level_name : SalesNames,
     Count : {0, 1, MaxCount}, Amount : {1, MaxRevenue}]

\* a recipe row after cleaning: every amount is a number (fillna(0))
RecipeVectors == [Range(ingredient_cols) -> {0, MaxAmount}]

\* shipment-sheet ingredient -> ingredient-usage column; a name the table
\* does not know maps to NaN
ingredient_mapping(name) ==
    CASE name = "Rice" -> <<"rice_g">>
      [] name = "Ramen" -> <<"ramen_count">>
      [] OTHER -> NaN

ShipmentNames == {"Rice", "Pork"}

ShipmentRows ==
    {[ingredient |-> n,
      ingredient_usage_column |-> ingredient_mapping(n),
      quantity_per_shipment |-> q,
      unit |-> "lbs", num_shipments |-> 1, frequency |-> "weekly"] :
        n \in ShipmentNames, q \in {0, MaxQuantity}}

\* the tables of lo to hi rows
TablesOf(rows, lo, hi) == UNION {[1..k -> rows] : k \in lo..hi}

\* recipe tables: one row per distinct item, rows in file order
UsageTables ==
    {ConcatAll([i \in DOMAIN RecipeNames |->
                  IF f[i] = NaN THEN <<>>
                  ELSE <<[item_name |-> RecipeNames[i], amounts |-> f[i][1]]>>]) :
        f \in [DOMAIN RecipeNames ->
                 {NaN} \cup {<<v>> : v \in RecipeVectors}]}

\* The inputs explored.  monthly_sales_item.csv is only written with rows in
\* it, so the sales table has at least one.  Every one-row sales table is
\* taken with every recipe and shipment table; every longer sales table of
\* rows with the largest Count and Amount is taken with every recipe table
\* and an empty shipment sheet.
Inputs ==
    (TablesOf(SalesRows, 1, 1) \X UsageTables
        \X TablesOf(ShipmentRows, 0, MaxShipments))
    \cup (TablesOf({r \in SalesRows : r.Count = MaxCount /\ r.Amount = MaxRevenue},
                   2, MaxSales)
          \X UsageTables \X {<<>>})

NoFile == <<>>

\* advanced_analysis.py has not run: nothing read, eda_output/ empty
AnalysisNotStarted ==
    /\ apc = "idle"
    /\ analysis_data = <<>>
    /\ consumption_pivot = <<>>
    /\ anomalies = <<>>
    /\ inventory_df = <<>>
    /\ forecast_df = <<>>
    /\ efficiency_analysis = <<>>
    /\ eda_output = [detected_anomalies |-> NoFile,
                     inventory_optimization |-> NoFile,
                     forecasting_data |-> NoFile,
                     cost_efficiency |-> NoFile]

\* dashboard.py has not been opened
DashboardNotStarted ==
    /\ dashboard_data = <<>>
    /\ page = "none"
    /\ inventory_status = <<>>
    /\ health_score = NaN

Init ==
    /\ \E input \in Inputs :
         /\ monthly_sales_item = input[1]
         /\ ingredient_usage = input[2]
         /\ shipment_data = input[3]
    /\ pc = "loaded"
    /\ sales_ingredients = <<>>
    /\ consumption_data = <<>>
    /\ monthly_consumption = <<>>
    /\ ingredient_summary = <<>>
    /\ monthly_consumption_with_shipment = <<>>
    /\ item_sales_with_ingredients = <<>>
    /\ processed_data = NoFile
    /\ key_statistics = <<>>
    /\ AnalysisNotStarted
    /\ DashboardNotStarted

----------------------------------------------------------------------------
(* [2/5] ingredient consumption by month *)

\* the columns a recipe row brings into a merged row
MatchedColumns(recipe) ==
    [item_name |-> recipe.item_name,
     amounts |-> [c \in Range(ingredient_cols) |-> <<recipe.amounts[c]>>]]

UnmatchedColumns ==
    [item_name |-> NaN, amounts |-> [c \in Range(ingredient_cols) |-> NaN]]

\* the join condition of the merge: left_on = level_name, right_on = item_name
NamesMatch(level_name, item_name) == level_name = item_name

MergeRow(sale, recipe_columns) ==
    [month |-> sale.month, level_name |-> sale.level_name,
     Count |-> sale.Count, Amount |-> sale.Amount,
     item_name |-> recipe_columns.item_name,
     amounts |-> recipe_columns.amounts]

\* monthly_sales_item.merge(ingredient_usage, how = 'left')
MergeSales(sales, usage) ==
    ConcatAll([i \in DOMAIN sales |->
        LET hits == SelectSeq(usage,
                        LAMBDA r : NamesMatch(sales[i].level_name, r.item_name))
        IN IF hits = <<>> THEN <<MergeRow(sales[i], UnmatchedColumns)>>
           ELSE [j \in DOMAIN hits |-> MergeRow(sales[i], MatchedColumns(hits[j]))]])

\* mutant: a zero amount counts as used
IngredientUsedOrZero(ingredient_per_item) ==
    ingredient_per_item # NaN /\ ingredient_per_item[1] >= 0

\* pd.notna(ingredient_per_item) and ingredient_per_item > 0
IngredientUsed(ingredient_per_item) ==
    ingredient_per_item # NaN /\ ingredient_per_item[1] > 0

\* mutant: the revenue of the sale divided among the ingredients it uses
ConsumptionRecordSplitRevenue(row, ingredient_col) ==
    [month |-> row.month,
     item_name |-> row.item_name,
     sales_count |-> row.Count,
     ingredient |-> ingredient_col,
     consumption_per_item |-> row.amounts[ingredient_col][1],
     total_consumption |-> row.Count * row.amounts[ingredient_col][1],
     revenue |-> row.Amount \div
         Cardinality({c \in Range(ingredient_cols) : IngredientUsed(row.amounts[c])})]

ConsumptionRecord(row, ingredient_col) ==
    [month |-> row.month,
     item_name |-> row.item_name,
     sales_count |-> row.Count,
     ingredient |-> ingredient_col,
     consumption_per_item |-> row.amounts[ingredient_col][1],
     total_consumption |-> row.Count * row.amounts[ingredient_col][1],
     revenue |-> row.Amount]

\* the inner loop over ingredient_cols for one merged row
RowConsumption(row) ==
    IF row.item_name = NaN THEN <<>>
    ELSE ConcatAll([k \in DOMAIN ingredient_cols |->
            IF IngredientUsed(row.amounts[ingredient_cols[k]])
            THEN <<ConsumptionRecord(row, ingredient_cols[k])>>
            ELSE <<>>])

\* the loop over sales_ingredients.iterrows()
ConsumptionLoop(merged) ==
    ConcatAll([i \in DOMAIN merged |-> RowConsumption(merged[i])])

Column(df, name) == [i \in DOMAIN df |-> df[i][name]]

GroupKey(r) == <<r.month, r.ingredient>>

\* mutant: sales_count counts the records of the group instead of summing
\* their units
GroupSumsCountingRows(df, k) ==
    LET group == SelectSeq(df, LAMBDA r : GroupKey(r) = k)
    IN [month |-> k[1], ingredient |-> k[2],
        total_consumption |-> SumSeq(Column(group, "total_consumption")),
        sales_count |-> Len(group),
        revenue |-> SumSeq(Column(group, "revenue"))]

\* one group of groupby(['month', 'ingredient']).agg(sum): the sums over the
\* records of the group
GroupSums(df, k) ==
    LET group == SelectSeq(df, LAMBDA r : GroupKey(r) = k)
    IN [month |-> k[1], ingredient |-> k[2],
        total_consumption |-> SumSeq(Column(group, "total_consumption")),
        sales_count |-> SumSeq(Column(group, "sales_count")),
        revenue |-> SumSeq(Column(group, "revenue"))]

\* groupby(...).agg(...).reset_index(): one row per key, keys in the order
\* of their values (groupby sorts its keys)
GroupBy(df) ==
    LET keys == Unique([i \in DOMAIN df |-> GroupKey(df[i])])
        rows == [i \in DOMAIN keys |-> GroupSums(df, keys[i])]
    IN SortValues(rows, [r \in Range(rows) |->
                            <<StrRank(r.month), StrRank(r.ingredient)>>])

\* the key of sort_values(['month_order', 'ingredient'])
MonthOrderKey(r) == <<MonthIndex(r.month), StrRank(r.ingredient)>>

\* mutant: the rows stay in the order of groupby (months by name)
SortByMonthName(df) == df

SortByMonthOrder(df) ==
    SortValues(df, [r \in Range(df) |-> MonthOrderKey(r)])

\* Section 2 runs to its end when consumption_df has rows
CalculateConsumption ==
    /\ pc = "loaded"
    /\ LET merged == MergeSales(monthly_sales_item, ingredient_usage)
           records == ConsumptionLoop(merged)
       IN /\ records # <<>>
          /\ sales_ingredients' = merged
          /\ consumption_data' = records
          /\ monthly_consumption' = SortByMonthOrder(GroupBy(records))
    /\ pc' = "consumption"
    /\ UNCHANGED <<monthly_sales_item, ingredient_usage, shipment_data,
                   ingredient_summary, monthly_consumption_with_shipment,
                   item_sales_with_ingredients, processed_data, key_statistics>>
    /\ UNCHANGED analysis_vars
    /\ UNCHANGED dashboard_vars

\* pd.DataFrame([]) has no columns: groupby(['month', 'ingredient']) on it
\* raises KeyError and the script ends there
CalculateConsumptionRaises ==
    /\ pc = "loaded"
    /\ LET merged == MergeSales(monthly_sales_item, ingredient_usage)
           records == ConsumptionLoop(merged)
       IN /\ records = <<>>
          /\ sales_ingredients' = merged
          /\ consumption_data' = records
    /\ pc' = "KeyError"
    /\ UNCHANGED <<monthly_sales_item, ingredient_usage, shipment_data,
                   monthly_consumption,
                   ingredient_summary, monthly_consumption_with_shipment,
                   item_sales_with_ingredients, processed_data, key_statistics>>
    /\ UNCHANGED analysis_vars
    /\ UNCHANGED dashboard_vars

----------------------------------------------------------------------------
(* [3/5] ingredient summary with shipment information *)

RECURSIVE GCD(_, _)
GCD(a, b) == IF b = 0 THEN a ELSE GCD(b, a % b)

\* the quotient n / d (d > 0) as a fraction in lowest terms
Ratio(n, d) == LET g == GCD(n, d) IN [num |-> n \div g, den |-> d \div g]

\* Series.mean()
Mean(s) == Ratio(SumSeq(s), Len(s))

Some(x) == <<x>>

\* shipment_data[shipment_data['ingredient_usage_column'] == ingredient]
ShipmentMatch(shipments, ingredient) ==
    SelectSeq(shipments, LAMBDA r : r.ingredient_usage_column = Some(ingredient))

\* mutant: missing shipment fields filled with zero / empty text
ShipmentFieldsZeroFilled(shipment_match) ==
    IF Len(shipment_match) > 0
    THEN LET shipment_row == shipment_match[1]
         IN [shipment_ingredient_name |-> Some(shipment_row.ingredient),
             quantity_per_shipment |-> Some(shipment_row.quantity_per_shipment),
             unit |-> Some(shipment_row.unit),
             num_shipments |-> Some(shipment_row.num_shipments),
             frequency |-> Some(shipment_row.frequency)]
    ELSE [shipment_ingredient_name |-> NaN,
          quantity_per_shipment |-> Some(0),
          unit |-> NaN,
          num_shipments |-> Some(0),
          frequency |-> NaN]

\* the shipment columns of a summary row
ShipmentFields(shipment_match) ==
    IF Len(shipment_match) > 0
    THEN LET shipment_row == shipment_match[1]
         IN [shipment_ingredient_name |-> Some(shipment_row.ingredient),
             quantity_per_shipment |-> Some(shipment_row.quantity_per_shipment),
             unit |-> Some(shipment_row.unit),
             num_shipments |-> Some(shipment_row.num_shipments),
             frequency |-> Some(shipment_row.frequency)]
    ELSE [shipment_ingredient_name |-> NaN,
          quantity_per_shipment |-> NaN,
          unit |-> NaN,
          num_shipments |-> NaN,
          frequency |-> NaN]

\* len(ingredient_consumption)
MonthsActive(ingredient_consumption) == Len(ingredient_consumption)

\* mutant: the total is the consumption of the latest month only
TotalConsumptionLatest(ingredient_consumption) ==
    ingredient_consumption[Len(ingredient_consumption)].total_consumption

\* ingredient_consumption['total_consumption'].sum()
TotalConsumption(ingredient_consumption) ==
    SumSeq(Column(ingredient_consumption, "total_consumption"))

\* mutant: the mean over all six months, missing months counted as zero
AvgOverAllMonths(ingredient_consumption) ==
    Ratio(SumSeq(Column(ingredient_consumption, "total_consumption")),
          Len(month_order))

\* ingredient_consumption['total_consumption'].mean()
AvgMonthlyConsumption(ingredient_consumption) ==
    Mean(Column(ingredient_consumption, "total_consumption"))

\* one pass of the loop over all_ingredients
SummaryRow(monthly, shipments, ingredient) ==
    LET ingredient_consumption ==
            SelectSeq(monthly, LAMBDA r : r.ingredient = ingredient)
        shipment_match == ShipmentMatch(shipments, ingredient)
        fields == ShipmentFields(shipment_match)
    IN [ingredient |-> ingredient,
        total_consumption_6months |-> TotalConsumption(ingredient_consumption),
        avg_monthly_consumption |-> AvgMonthlyConsumption(ingredient_consumption),
        months_active |-> MonthsActive(ingredient_consumption),
        has_shipment_data |-> Len(shipment_match) > 0,
        shipment_ingredient_name |-> fields.shipment_ingredient_name,
        quantity_per_shipment |-> fields.quantity_per_shipment,
        unit |-> fields.unit,
        num_shipments |-> fields.num_shipments,
        frequency |-> fields.frequency]

\* mutant: the ingredient of every aggregate row, repeats included
IngredientsOfAllRows(monthly) == Column(monthly, "ingredient")

\* monthly_consumption['ingredient'].unique()
all_ingredients(monthly) == Unique(Column(monthly, "ingredient"))

CreateIngredientSummary ==
    /\ pc = "consumption"
    /\ ingredient_summary' =
         LET ingredients == all_ingredients(monthly_consumption)
         IN [i \in DOMAIN ingredients |->
               SummaryRow(monthly_consumption, shipment_data, ingredients[i])]
    /\ pc' = "summary"
    /\ UNCHANGED <<monthly_sales_item, ingredient_usage, shipment_data,
                   sales_ingredients, consumption_data, monthly_consumption,
                   monthly_consumption_with_shipment,
                   item_sales_with_ingredients, processed_data, key_statistics>>
    /\ UNCHANGED analysis_vars
    /\ UNCHANGED dashboard_vars

----------------------------------------------------------------------------
(* [4/5] monthly consumption with shipment data *)

\* estimated shipments of one merged row; None when the quantity per shipment
\* is missing or zero
calculate_shipments_needed(row) ==
    IF row.quantity_per_shipment = NaN \/ row.quantity_per_shipment[1] = 0
    THEN NaN
    ELSE IF row.quantity_per_shipment[1] > 0
         THEN Some(Ratio(row.total_consumption, row.quantity_per_shipment[1]))
         ELSE NaN

ShipmentColumns(aggregate, name, quantity, unit, frequency, num_shipments) ==
    [month |-> aggregate.month, ingredient |-> aggregate.ingredient,
     total_consumption |-> aggregate.total_consumption,
     sales_count |-> aggregate.sales_count,
     revenue |-> aggregate.revenue,
     shipment_ingredient_name |-> name,
     quantity_per_shipment |-> quantity,
     unit |-> unit, frequency |-> frequency, num_shipments |-> num_shipments]

WithEstimate(row) ==
    [month |-> row.month, ingredient |-> row.ingredient,
     total_consumption |-> row.total_consumption,
     sales_count |-> row.sales_count,
     revenue |-> row.revenue,
     shipment_ingredient_name |-> row.shipment_ingredient_name,
     quantity_per_shipment |-> row.quantity_per_shipment,
     unit |-> row.unit, frequency |-> row.frequency,
     num_shipments |-> row.num_shipments,
     estimated_shipments_needed |-> calculate_shipments_needed(row)]

\* monthly_consumption.merge(shipment_data[...], how = 'left') and the apply
MergeShipmentData(monthly, shipments) ==
    ConcatAll([i \in DOMAIN monthly |->
        LET hits == ShipmentMatch(shipments, monthly[i].ingredient)
        IN IF hits = <<>>
           THEN <<WithEstimate(ShipmentColumns(monthly[i], NaN, NaN, NaN, NaN, NaN))>>
           ELSE [j \in DOMAIN hits |->
                   WithEstimate(ShipmentColumns(monthly[i],
                       hits[j].ingredient_usage_column,
                       Some(hits[j].quantity_per_shipment),
                       Some(hits[j].unit), Some(hits[j].frequency),
                       Some(hits[j].num_shipments)))]])

MergeShipments ==
    /\ pc = "summary"
    /\ monthly_consumption_with_shipment' =
         MergeShipmentData(monthly_consumption, shipment_data)
    /\ pc' = "shipments"
    /\ UNCHANGED <<monthly_sales_item, ingredient_usage, shipment_data,
                   sales_ingredients, consumption_data, monthly_consumption,
                   ingredient_summary,
                   item_sales_with_ingredients, processed_data, key_statistics>>
    /\ UNCHANGED analysis_vars
    /\ UNCHANGED dashboard_vars

----------------------------------------------------------------------------
(* [5/5] item-level sales with ingredient usage *)

\* item_sales_with_ingredients['item_name'].notna()
HasIngredientData(row) == row.item_name # NaN

FlagRow(row) ==
    [month |-> row.month, level_name |-> row.level_name,
     Count |-> row.Count, Amount |-> row.Amount,
     item_name |-> row.item_name, amounts |-> row.amounts,
     has_ingredient_data |-> HasIngredientData(row)]

ItemSalesWithIngredients(sales, usage) ==
    LET merged == MergeSales(sales, usage)
    IN [i \in DOMAIN merged |-> FlagRow(merged[i])]

CreateItemSales ==
    /\ pc = "shipments"
    /\ item_sales_with_ingredients' =
         ItemSalesWithIngredients(monthly_sales_item, ingredient_usage)
    /\ pc' = "items"
    /\ UNCHANGED <<monthly_sales_item, ingredient_usage, shipment_data,
                   sales_ingredients, consumption_data, monthly_consumption,
                   ingredient_summary, monthly_consumption_with_shipment,
                   processed_data, key_statistics>>
    /\ UNCHANGED analysis_vars
    /\ UNCHANGED dashboard_vars

----------------------------------------------------------------------------
(* [6/6] save the processed data and print the key statistics *)

\* mutant: the tables are appended to the files that are there
SavedFilesAppended ==
    LET old == IF processed_data = NoFile
               THEN [ingredient_consumption_detailed |-> <<>>,
                     ingredient_consumption_monthly |-> <<>>,
                     ingredient_consumption_with_shipments |-> <<>>,
                     ingredient_summary |-> <<>>,
                     item_sales_with_ingredients |-> <<>>]
               ELSE processed_data[1]
    IN [ingredient_consumption_detailed |->
            old.ingredient_consumption_detailed \o consumption_data,
        ingredient_consumption_monthly |->
            old.ingredient_consumption_monthly \o monthly_consumption,
        ingredient_consumption_with_shipments |->
            old.ingredient_consumption_with_shipments
                \o monthly_consumption_with_shipment,
        ingredient_summary |-> old.ingredient_summary \o ingredient_summary,
        item_sales_with_ingredients |->
            old.item_sales_with_ingredients \o item_sales_with_ingredients]

\* to_csv of the five tables: each file is written anew
SavedFiles ==
    [ingredient_consumption_detailed |-> consumption_data,
     ingredient_consumption_monthly |-> monthly_consumption,
     ingredient_consumption_with_shipments |-> monthly_consumption_with_shipment,
     ingredient_summary |-> ingredient_summary,
     item_sales_with_ingredients |-> item_sales_with_ingredients]

\* the figures of the "Key Statistics" block
KeyStatistics ==
    [unique_ingredients |-> Len(all_ingredients(monthly_consumption)),
     items_with_sales |->
         Cardinality(Range(Column(monthly_sales_item, "level_name"))),
     items_matched |->
         Len(SelectSeq(item_sales_with_ingredients,
                       LAMBDA r : r.has_ingredient_data)),
     months |-> Cardinality(Range(Column(monthly_sales_item, "month"))),
     consumption_records |-> Len(consumption_data)]

SaveProcessedData ==
    /\ pc = "items"
    /\ processed_data' = Some(SavedFiles)
    /\ key_statistics' = Some(KeyStatistics)
    /\ pc' = "done"
    /\ UNCHANGED <<monthly_sales_item, ingredient_usage, shipment_data,
                   sales_ingredients, consumption_data, monthly_consumption,
                   ingredient_summary, monthly_consumption_with_shipment,
                   item_sales_with_ingredients>>
    /\ UNCHANGED analysis_vars
    /\ UNCHANGED dashboard_vars

----------------------------------------------------------------------------

Next ==
    \/ CalculateConsumption
    \/ CalculateConsumptionRaises
    \/ CreateIngredientSummary
    \/ MergeShipments
    \/ CreateItemSales
    \/ SaveProcessedData

Spec == Init /\ [][Next]_vars

----------------------------------------------------------------------------
(* Numbers of advanced_analysis.py *)

\* The floats of the script are kept exact.  A quotient is a fraction, with
\* denominator 0 for the results float division gives on a zero divisor; a
\* value that involves a standard deviation is rat + coef * sqrt(rad) with
\* fractions rat, coef >= 0 and rad >= 0.

Rat(n) == Ratio(n, 1)

RatAdd(a, b) == Ratio(a.num * b.den + b.num * a.den, a.den * b.den)

RatSub(a, b) == Ratio(a.num * b.den - b.num * a.den, a.den * b.den)

RatMul(a, b) == Ratio(a.num * b.num, a.den * b.den)

RatLess(a, b) == a.num * b.den < b.num * a.den

RatAbs(a) == [num |-> IF a.num < 0 THEN 0 - a.num ELSE a.num, den |-> a.den]

\* float results of a division by zero
Infinity == [num |-> 1, den |-> 0]
MinusInfinity == [num |-> 0 - 1, den |-> 0]
NotANumber == [num |-> 0, den |-> 0]

\* a / b on floats, b >= 0: no exception on a zero divisor
FloatDivide(a, b) ==
    IF b.num = 0
    THEN IF a.num > 0 THEN Infinity
         ELSE IF a.num < 0 THEN MinusInfinity ELSE NotANumber
    ELSE Ratio(a.num * b.den, a.den * b.num)

RECURSIVE RatSum(_)
RatSum(s) == IF s = <<>> THEN Rat(0) ELSE RatAdd(Head(s), RatSum(Tail(s)))

\* rat + coef * sqrt(rad)
Real(rat, coef, rad) ==
    IF coef.num = 0 \/ rad.num = 0
    THEN [rat |-> rat, coef |-> Rat(0), rad |-> Rat(0)]
    ELSE [rat |-> rat, coef |-> coef, rad |-> rad]

Sqrt(q) == Real(Rat(0), Rat(1), q)

FromRat(r) == Real(r, Rat(0), Rat(0))

\* k * x and r + x for a fraction and a value with a square root
Scale(k, x) == Real(RatMul(k, x.rat), RatMul(k, x.coef), x.rad)

AddRat(r, x) == Real(RatAdd(r, x.rat), x.coef, x.rad)

\* x > r on floats; a comparison with NaN is False
Greater(x, r) ==
    /\ x # NaN
    /\ LET t == RatSub(r, x[1].rat)
       IN \/ t.num < 0
          \/ RatLess(RatMul(t, t), RatMul(RatMul(x[1].coef, x[1].coef), x[1].rad))

\* the mean of the squared deviations, over n - ddof
Variance(values, ddof) ==
    LET mean == Mean(values)
        squares == [i \in DOMAIN values |->
                      RatMul(RatSub(Rat(values[i]), mean),
                             RatSub(Rat(values[i]), mean))]
    IN FloatDivide(RatSum(squares), Rat(Len(values) - ddof))

\* mutant: the population standard deviation (divisor n)
StdPopulation(values) == Some(Sqrt(Variance(values, 0)))

\* Series.std(): the sample standard deviation (ddof = 1), NaN for fewer than
\* two values
Std(values) ==
    IF Len(values) < 2 THEN NaN ELSE Some(Sqrt(Variance(values, 1)))

RECURSIVE Max(_)
\* Series.max()
Max(s) ==
    IF Len(s) = 1 THEN s[1]
    ELSE LET m == Max(Tail(s)) IN IF Head(s) > m THEN Head(s) ELSE m

RECURSIVE Min(_)
\* Series.min()
Min(s) ==
    IF Len(s) = 1 THEN s[1]
    ELSE LET m == Min(Tail(s)) IN IF Head(s) < m THEN Head(s) ELSE m

----------------------------------------------------------------------------
(* advanced_analysis.py: the saved tables it starts from *)

MaxUnits == 3       \* largest Count of a sales row of the six-month tables

\* the units an item sold in each month of month_order; NaN = not on the
\* month's sheet
UnitSeries ==
    [DOMAIN month_order -> {NaN, Some(0), Some(1), Some(MaxUnits)}]

\* item b is sold one unit a month in the first month or the first four
\* months of the season
SecondItemSeries ==
    {[k \in DOMAIN month_order |-> IF k <= n THEN Some(1) ELSE NaN] :
        n \in {1, 4}}

SalesRowOf(name, k, units) ==
    IF units[k] = NaN THEN <<>>
    ELSE <<[month |-> month_order[k], level_name |-> name,
            Count |-> units[k][1], Amount |-> MaxRevenue]>>

\* the sales table of the two items, month by month
SeasonSales(units_a, units_b) ==
    ConcatAll([k \in DOMAIN month_order |->
        SalesRowOf(RecipeNames[1], k, units_a)
            \o SalesRowOf(RecipeNames[2], k, units_b)])

\* item a is made of rice, item b of ramen
SeasonUsage ==
    <<[item_name |-> RecipeNames[1],
       amounts |-> [c \in Range(ingredient_cols) |->
                      IF c = "rice_g" THEN MaxAmount ELSE 0]],
      [item_name |-> RecipeNames[2],
       amounts |-> [c \in Range(ingredient_cols) |->
                      IF c = "ramen_count" THEN MaxAmount ELSE 0]]>>

\* rice comes by shipment, ramen has no shipment row
SeasonShipments ==
    <<[ingredient |-> "Rice",
       ingredient_usage_column |-> ingredient_mapping("Rice"),
       quantity_per_shipment |-> MaxQuantity,
       unit |-> "lbs", num_shipments |-> 1, frequency |-> "weekly"]>>

\* the state a finished run of intermediate_processing.py leaves, for every
\* six-month sales table of the two items
InitAnalysis ==
    /\ \E units_a \in UnitSeries, units_b \in SecondItemSeries :
         monthly_sales_item = SeasonSales(units_a, units_b)
    /\ ingredient_usage = SeasonUsage
    /\ shipment_data = SeasonShipments
    /\ sales_ingredients = MergeSales(monthly_sales_item, ingredient_usage)
    /\ consumption_data = ConsumptionLoop(sales_ingredients)
    /\ monthly_consumption = SortByMonthOrder(GroupBy(consumption_data))
    /\ ingredient_summary =
         LET ingredients == all_ingredients(monthly_consumption)
         IN [i \in DOMAIN ingredients |->
               SummaryRow(monthly_consumption, shipment_data, ingredients[i])]
    /\ monthly_consumption_with_shipment =
         MergeShipmentData(monthly_consumption, shipment_data)
    /\ item_sales_with_ingredients =
         ItemSalesWithIngredients(monthly_sales_item, ingredient_usage)
    /\ processed_data = Some(SavedFiles)
    /\ key_statistics = Some(KeyStatistics)
    /\ pc = "done"
    /\ AnalysisNotStarted
    /\ DashboardNotStarted

----------------------------------------------------------------------------
(* [1/6] load data *)

\* pd.read_csv of the three processed tables: numbers, texts and missing
\* cells come back as they were written
ReadProcessed(files) ==
    [consumption_monthly |-> files.ingredient_consumption_monthly,
     ingredient_summary |-> files.ingredient_summary,
     consumption_with_shipments |-> files.ingredient_consumption_with_shipments]

\* the script is run once intermediate_processing.py has saved its tables
LoadData ==
    /\ apc = "idle"
    /\ pc = "done"
    /\ processed_data # NoFile
    /\ analysis_data' = ReadProcessed(processed_data[1])
    /\ apc' = "loaded"
    /\ UNCHANGED <<monthly_sales_item, ingredient_usage, shipment_data, pc,
                   sales_ingredients, consumption_data, monthly_consumption,
                   ingredient_summary, monthly_consumption_with_shipment,
                   item_sales_with_ingredients, processed_data, key_statistics,
                   consumption_pivot, anomalies, inventory_df, forecast_df,
                   efficiency_analysis, eda_output>>
    /\ UNCHANGED dashboard_vars

----------------------------------------------------------------------------
(* [2/6] seasonal pattern analysis *)

\* sorted(names): the columns of a pivot come in the order of their labels
SortedNames(names) ==
    SortValues(names, [n \in Range(names) |-> <<StrRank(n), 0>>])

\* one column of pivot(index = 'month', columns = 'ingredient', values =
\* 'total_consumption').reindex(month_order): a cell per month of month_order
PivotColumn(monthly, ingredient) ==
    [k \in DOMAIN month_order |->
        LET hits == SelectSeq(monthly, LAMBDA r :
                        r.month = month_order[k] /\ r.ingredient = ingredient)
        IN IF hits = <<>> THEN NaN ELSE Some(hits[1].total_consumption)]

Pivot(monthly) ==
    LET columns == SortedNames(Unique(Column(monthly, "ingredient")))
    IN [c \in DOMAIN columns |->
          [ingredient |-> columns[c], cells |-> PivotColumn(monthly, columns[c])]]

SeasonalPatterns ==
    /\ apc = "loaded"
    /\ consumption_pivot' = Pivot(analysis_data.consumption_monthly)
    /\ apc' = "seasonal"
    /\ UNCHANGED <<monthly_sales_item, ingredient_usage, shipment_data, pc,
                   sales_ingredients, consumption_data, monthly_consumption,
                   ingredient_summary, monthly_consumption_with_shipment,
                   item_sales_with_ingredients, processed_data, key_statistics,
                   analysis_data, anomalies, inventory_df, forecast_df,
                   efficiency_analysis, eda_output>>
    /\ UNCHANGED dashboard_vars

\* mutant: the missing months are filled with zero
FillNaZero(cells) ==
    [k \in DOMAIN cells |->
        [month |-> month_order[k],
         value |-> IF cells[k] = NaN THEN 0 ELSE cells[k][1]]]

\* Series.dropna(): the months with a value, in the order of the index
DropNa(cells) ==
    ConcatAll([k \in DOMAIN cells |->
        IF cells[k] = NaN THEN <<>>
        ELSE <<[month |-> month_order[k], value |-> cells[k][1]]>>])

----------------------------------------------------------------------------
(* [3/6] anomaly detection *)

\* r / x for a fraction r and x = coef * sqrt(rad) > 0
DivideByReal(r, x) ==
    Real(Rat(0), FloatDivide(r, RatMul(x.coef, x.rad)), x.rad)

\* np.abs((value - mean) / std)
ZScore(value, mean, std) == DivideByReal(RatAbs(RatSub(Rat(value), mean)), std)

\* q * 100
Percent(q) == IF q.den = 0 THEN q ELSE RatMul(q, Rat(100))

\* the anomaly rows of one column of the pivot
AnomalyRows(ingredient, values) ==
    IF Len(values) > 2
    THEN LET mean == Mean(Column(values, "value"))
             std == Std(Column(values, "value"))
         IN IF Greater(std, Rat(0))
            THEN ConcatAll([k \in DOMAIN values |->
                    LET z_score == ZScore(values[k].value, mean, std[1])
                    IN IF Greater(Some(z_score), Rat(2))
                       THEN <<[ingredient |-> ingredient,
                               month |-> values[k].month,
                               consumption |-> values[k].value,
                               z_score |-> z_score,
                               deviation |->
                                   Percent(FloatDivide(
                                       RatSub(Rat(values[k].value), mean), mean))]>>
                       ELSE <<>>])
            ELSE <<>>
    ELSE <<>>

\* the loop over consumption_pivot.columns
AnomalyLoop(pivot) ==
    ConcatAll([c \in DOMAIN pivot |->
        AnomalyRows(pivot[c].ingredient, DropNa(pivot[c].cells))])

\* detected_anomalies.csv is written only when the list has rows
DetectAnomalies ==
    /\ apc = "seasonal"
    /\ anomalies' = AnomalyLoop(consumption_pivot)
    /\ eda_output' =
         IF anomalies' # <<>>
         THEN [eda_output EXCEPT !.detected_anomalies = Some(anomalies')]
         ELSE eda_output
    /\ apc' = "anomalies"
    /\ UNCHANGED <<monthly_sales_item, ingredient_usage, shipment_data, pc,
                   sales_ingredients, consumption_data, monthly_consumption,
                   ingredient_summary, monthly_consumption_with_shipment,
                   item_sales_with_ingredients, processed_data, key_statistics,
                   analysis_data, consumption_pivot, inventory_df, forecast_df,
                   efficiency_analysis>>
    /\ UNCHANGED dashboard_vars

----------------------------------------------------------------------------
(* [4/6] inventory optimisation *)

\* mutant: the fallback is taken only when the deviation is undefined
SafetyStockZeroStd(std_monthly, avg_monthly) ==
    IF std_monthly # NaN
    THEN Some(Scale(Ratio(165, 100), std_monthly[1]))
    ELSE Some(FromRat(RatMul(avg_monthly, Ratio(2, 10))))

\* mutant: the fallback is taken only when the deviation is zero, so an
\* undefined deviation goes through the product
SafetyStockNaNPropagates(std_monthly, avg_monthly) ==
    IF std_monthly = NaN THEN NaN
    ELSE IF Greater(std_monthly, Rat(0))
         THEN Some(Scale(Ratio(165, 100), std_monthly[1]))
         ELSE Some(FromRat(RatMul(avg_monthly, Ratio(2, 10))))

\* 1.65 * std_monthly if std_monthly > 0 else avg_monthly * 0.2
SafetyStock(std_monthly, avg_monthly) ==
    IF Greater(std_monthly, Rat(0))
    THEN Some(Scale(Ratio(165, 100), std_monthly[1]))
    ELSE Some(FromRat(RatMul(avg_monthly, Ratio(2, 10))))

\* mutant: the reorder point is the average alone
ReorderPointWithoutSafety(avg_monthly, safety_stock) ==
    IF safety_stock = NaN THEN NaN
    ELSE Some(FromRat(avg_monthly))

\* avg_monthly + safety_stock
ReorderPoint(avg_monthly, safety_stock) ==
    IF safety_stock = NaN THEN NaN
    ELSE Some(AddRat(avg_monthly, safety_stock[1]))

\* consumption_with_shipments[... == ingredient].iloc[0], or None
ShipmentInfo(with_shipments, ingredient) ==
    LET rows == SelectSeq(with_shipments, LAMBDA r : r.ingredient = ingredient)
    IN IF Len(rows) > 0 THEN Some(rows[1]) ELSE NaN

\* one pass of the loop over ingredient_summary.iterrows()
InventoryRow(row, data) ==
    LET ingredient_consumption ==
            SelectSeq(data.consumption_monthly,
                      LAMBDA r : r.ingredient = row.ingredient)
        avg_monthly == row.avg_monthly_consumption
        totals == Column(ingredient_consumption, "total_consumption")
        std_monthly == Std(totals)
        safety_stock == SafetyStock(std_monthly, avg_monthly)
        shipment_info ==
            ShipmentInfo(data.consumption_with_shipments, row.ingredient)
    IN IF Len(ingredient_consumption) > 0
       THEN <<[ingredient |-> row.ingredient,
               avg_monthly_consumption |-> avg_monthly,
               std_monthly_consumption |-> std_monthly,
               max_monthly_consumption |-> Max(totals),
               min_monthly_consumption |-> Min(totals),
               safety_stock |-> safety_stock,
               reorder_point |-> ReorderPoint(avg_monthly, safety_stock),
               has_shipment_data |-> row.has_shipment_data,
               frequency |->
                   IF shipment_info # NaN THEN shipment_info[1].frequency ELSE NaN,
               quantity_per_shipment |->
                   IF shipment_info # NaN
                   THEN shipment_info[1].quantity_per_shipment ELSE NaN]>>
       ELSE <<>>

\* mutant: the levels are tested from LOW upwards, so an undefined deviation
\* falls through to HIGH
RiskLevelLowFirst(std_monthly, avg_monthly) ==
    IF std_monthly = NaN THEN "HIGH"
    ELSE IF ~Greater(std_monthly, RatMul(avg_monthly, Ratio(3, 10))) THEN "LOW"
    ELSE IF ~Greater(std_monthly, RatMul(avg_monthly, Ratio(5, 10))) THEN "MEDIUM"
    ELSE "HIGH"

\* the lambda of inventory_df.apply
RiskLevel(std_monthly, avg_monthly) ==
    IF Greater(std_monthly, RatMul(avg_monthly, Ratio(5, 10))) THEN "HIGH"
    ELSE IF Greater(std_monthly, RatMul(avg_monthly, Ratio(3, 10))) THEN "MEDIUM"
    ELSE "LOW"

WithRiskLevel(row) ==
    [ingredient |-> row.ingredient,
     avg_monthly_consumption |-> row.avg_monthly_consumption,
     std_monthly_consumption |-> row.std_monthly_consumption,
     max_monthly_consumption |-> row.max_monthly_consumption,
     min_monthly_consumption |-> row.min_monthly_consumption,
     safety_stock |-> row.safety_stock,
     reorder_point |-> row.reorder_point,
     has_shipment_data |-> row.has_shipment_data,
     frequency |-> row.frequency,
     quantity_per_shipment |-> row.quantity_per_shipment,
     risk_level |-> RiskLevel(row.std_monthly_consumption,
                              row.avg_monthly_consumption)]

InventoryAnalysis(data) ==
    LET inventory_analysis ==
            ConcatAll([i \in DOMAIN data.ingredient_summary |->
                InventoryRow(data.ingredient_summary[i], data)])
    IN [i \in DOMAIN inventory_analysis |-> WithRiskLevel(inventory_analysis[i])]

\* the rows of inventory_df go to inventory_optimization.csv as they are
InventoryOptimization ==
    /\ apc = "anomalies"
    /\ inventory_df' = InventoryAnalysis(analysis_data)
    /\ eda_output' =
         [eda_output EXCEPT !.inventory_optimization = Some(inventory_df')]
    /\ apc' = "inventory"
    /\ UNCHANGED <<monthly_sales_item, ingredient_usage, shipment_data, pc,
                   sales_ingredients, consumption_data, monthly_consumption,
                   ingredient_summary, monthly_consumption_with_shipment,
                   item_sales_with_ingredients, processed_data, key_statistics,
                   analysis_data, consumption_pivot, anomalies, forecast_df,
                   efficiency_analysis>>
    /\ UNCHANGED dashboard_vars

----------------------------------------------------------------------------
(* [5/6] forecasting preparation *)

\* mutant: the slope of the line through the first and the last value
TrendSlopeEndpoints(values) ==
    Ratio(values[Len(values)] - values[1], Len(values) - 1)

\* np.polyfit(np.arange(len(values)), values, 1)[0]: the least-squares slope
\* of the values over the positions 0 .. n-1
TrendSlope(values) ==
    LET n == Len(values)
        sum_x == SumSeq([i \in 1..n |-> i - 1])
        sum_xx == SumSeq([i \in 1..n |-> (i - 1) * (i - 1)])
        sum_v == SumSeq(values)
        sum_xv == SumSeq([i \in 1..n |-> (i - 1) * values[i]])
    IN Ratio(n * sum_xv - sum_x * sum_v, n * sum_xx - sum_x * sum_x)

\* mutant: the sizes of the changes, without their sign
DiffAbsolute(values) ==
    [i \in 1..(Len(values) - 1) |->
        IF values[i + 1] < values[i] THEN values[i] - values[i + 1]
        ELSE values[i + 1] - values[i]]

\* np.diff(values)
Diff(values) == [i \in 1..(Len(values) - 1) |-> values[i + 1] - values[i]]

\* np.mean(np.diff(values)) if len(values) > 1 else 0
AvgChange(values) == IF Len(values) > 1 THEN Mean(Diff(values)) ELSE Rat(0)

\* values.std() / values.mean() if values.mean() > 0 else 0
Volatility(values) ==
    IF RatLess(Rat(0), Mean(values))
    THEN Scale(FloatDivide(Rat(1), Mean(values)), Std(values)[1])
    ELSE FromRat(Rat(0))

\* mutant: three data points are enough
ForecastRowsFromThree(ingredient, values) ==
    IF Len(values) >= 3
    THEN LET series == Column(values, "value")
             avg_change == AvgChange(series)
         IN <<[ingredient |-> ingredient,
               trend_slope |-> TrendSlope(series),
               avg_monthly_change |-> avg_change,
               last_value |-> series[Len(series)],
               forecast_next_month |-> RatAdd(Rat(series[Len(series)]), avg_change),
               volatility |-> Volatility(series)]>>
    ELSE <<>>

\* the forecast row of one column of the pivot, if it has four values
ForecastRows(ingredient, values) ==
    IF Len(values) >= 4
    THEN LET series == Column(values, "value")
             avg_change == AvgChange(series)
         IN <<[ingredient |-> ingredient,
               trend_slope |-> TrendSlope(series),
               avg_monthly_change |-> avg_change,
               last_value |-> series[Len(series)],
               forecast_next_month |-> RatAdd(Rat(series[Len(series)]), avg_change),
               volatility |-> Volatility(series)]>>
    ELSE <<>>

\* the loop over consumption_pivot.columns
ForecastLoop(pivot) ==
    ConcatAll([c \in DOMAIN pivot |->
        ForecastRows(pivot[c].ingredient, DropNa(pivot[c].cells))])

\* row a stands before row b in a descending sort: NaN goes last
Precedes(a, b) == a # NotANumber /\ (b = NotANumber \/ RatLess(b, a))

RECURSIVE InsertDescending(_, _, _)
InsertDescending(sorted, x, column) ==
    IF sorted = <<>> THEN <<x>>
    ELSE IF ~Precedes(Head(sorted)[column], x[column]) THEN <<x>> \o sorted
    ELSE <<Head(sorted)>> \o InsertDescending(Tail(sorted), x, column)

RECURSIVE SortDescending(_, _)
\* sort_values(column, ascending = False); rows with equal values keep their
\* order
SortDescending(df, column) ==
    IF df = <<>> THEN <<>>
    ELSE InsertDescending(SortDescending(Tail(df), column), Head(df), column)

\* Section 5 runs to its end when forecast_data has rows
ForecastingPreparation ==
    /\ apc = "inventory"
    /\ LET forecast_data == ForecastLoop(consumption_pivot)
       IN /\ forecast_data # <<>>
          /\ forecast_df' = SortDescending(forecast_data, "forecast_next_month")
    /\ eda_output' = [eda_output EXCEPT !.forecasting_data = Some(forecast_df')]
    /\ apc' = "forecast"
    /\ UNCHANGED <<monthly_sales_item, ingredient_usage, shipment_data, pc,
                   sales_ingredients, consumption_data, monthly_consumption,
                   ingredient_summary, monthly_consumption_with_shipment,
                   item_sales_with_ingredients, processed_data, key_statistics,
                   analysis_data, consumption_pivot, anomalies, inventory_df,
                   efficiency_analysis>>
    /\ UNCHANGED dashboard_vars

\* pd.DataFrame([]) has no columns: sort_values('forecast_next_month') on it
\* raises KeyError and the script ends there
ForecastingRaises ==
    /\ apc = "inventory"
    /\ ForecastLoop(consumption_pivot) = <<>>
    /\ apc' = "KeyError"
    /\ UNCHANGED <<monthly_sales_item, ingredient_usage, shipment_data, pc,
                   sales_ingredients, consumption_data, monthly_consumption,
                   ingredient_summary, monthly_consumption_with_shipment,
                   item_sales_with_ingredients, processed_data, key_statistics,
                   analysis_data, consumption_pivot, anomalies, inventory_df,
                   forecast_df, efficiency_analysis, eda_output>>
    /\ UNCHANGED dashboard_vars

----------------------------------------------------------------------------
(* [6/6] cost efficiency *)

\* one group of groupby('ingredient').agg(sum), with revenue_per_unit =
\* revenue / total_consumption
EfficiencyRow(monthly, ingredient) ==
    LET group == SelectSeq(monthly, LAMBDA r : r.ingredient = ingredient)
        total_consumption == SumSeq(Column(group, "total_consumption"))
        revenue == SumSeq(Column(group, "revenue"))
    IN [ingredient |-> ingredient,
        total_consumption |-> total_consumption,
        revenue |-> revenue,
        revenue_per_unit |-> FloatDivide(Rat(revenue), Rat(total_consumption))]

\* the frame indexed by ingredient, sorted by revenue_per_unit
EfficiencyAnalysis(monthly) ==
    LET index == SortedNames(Unique(Column(monthly, "ingredient")))
    IN SortDescending([i \in DOMAIN index |-> EfficiencyRow(monthly, index[i])],
                      "revenue_per_unit")

\* to_csv(index = False) of a frame whose index is the ingredient: the
\* columns are written, the index is not
ToCsvWithoutIndex(df) ==
    [i \in DOMAIN df |->
        [total_consumption |-> df[i].total_consumption,
         revenue |-> df[i].revenue,
         revenue_per_unit |-> df[i].revenue_per_unit]]

CostEfficiency ==
    /\ apc = "forecast"
    /\ efficiency_analysis' = EfficiencyAnalysis(analysis_data.consumption_monthly)
    /\ eda_output' =
         [eda_output EXCEPT !.cost_efficiency =
              Some(ToCsvWithoutIndex(efficiency_analysis'))]
    /\ apc' = "done"
    /\ UNCHANGED <<monthly_sales_item, ingredient_usage, shipment_data, pc,
                   sales_ingredients, consumption_data, monthly_consumption,
                   ingredient_summary, monthly_consumption_with_shipment,
                   item_sales_with_ingredients, processed_data, key_statistics,
                   analysis_data, consumption_pivot, anomalies, inventory_df,
                   forecast_df>>
    /\ UNCHANGED dashboard_vars

----------------------------------------------------------------------------

NextAnalysis ==
    \/ LoadData
    \/ SeasonalPatterns
    \/ DetectAnomalies
    \/ InventoryOptimization
    \/ ForecastingPreparation
    \/ ForecastingRaises
    \/ CostEfficiency

SpecAnalysis == InitAnalysis /\ [][NextAnalysis]_vars

----------------------------------------------------------------------------
(* The pipeline run again: intermediate_processing.py, then                *)
(* advanced_analysis.py, on the cleaned tables of the run before           *)

\* item a is sold 1 or MaxUnits units in any of the six months, item b as above;
\* the recipe sheet is the season's or has no row
InitRerun ==
    /\ \E units_a \in [DOMAIN month_order -> {NaN, Some(1), Some(MaxUnits)}],
          units_b \in SecondItemSeries :
         monthly_sales_item = SeasonSales(units_a, units_b)
    /\ monthly_sales_item # <<>>
    /\ ingredient_usage \in {SeasonUsage, <<>>}
    /\ shipment_data = SeasonShipments
    /\ pc = "loaded"
    /\ sales_ingredients = <<>>
    /\ consumption_data = <<>>
    /\ monthly_consumption = <<>>
    /\ ingredient_summary = <<>>
    /\ monthly_consumption_with_shipment = <<>>
    /\ item_sales_with_ingredients = <<>>
    /\ processed_data = NoFile
    /\ key_statistics = <<>>
    /\ AnalysisNotStarted
    /\ DashboardNotStarted

\* Both scripts have ended (the second cannot start without the processed
\* tables) and are started again: each starts with nothing in memory and
\* with the files the earlier runs left in processed_data/ and eda_output/.
Rerun ==
    /\ pc \in {"done", "KeyError"}
    /\ apc \in {"done", "KeyError"} \/ processed_data = NoFile
    /\ pc' = "loaded"
    /\ sales_ingredients' = <<>>
    /\ consumption_data' = <<>>
    /\ monthly_consumption' = <<>>
    /\ ingredient_summary' = <<>>
    /\ monthly_consumption_with_shipment' = <<>>
    /\ item_sales_with_ingredients' = <<>>
    /\ key_statistics' = <<>>
    /\ apc' = "idle"
    /\ analysis_data' = <<>>
    /\ consumption_pivot' = <<>>
    /\ anomalies' = <<>>
    /\ inventory_df' = <<>>
    /\ forecast_df' = <<>>
    /\ efficiency_analysis' = <<>>
    /\ UNCHANGED <<monthly_sales_item, ingredient_usage, shipment_data,
                   processed_data, eda_output>>
    /\ UNCHANGED dashboard_vars

NextRerun == Next \/ NextAnalysis \/ Rerun

SpecRerun == InitRerun /\ [][NextRerun]_vars

----------------------------------------------------------------------------
(* The pipeline run again on other cleaned tables *)

\* the units of item a over the season, in the tables of successive runs:
\* one unit every month; one unit every month and MaxUnits in October; one
\* unit in May only
RunSeries ==
    {[k \in DOMAIN month_order |-> Some(1)],
     [k \in DOMAIN month_order |->
        IF k = Len(month_order) THEN Some(MaxUnits) ELSE Some(1)],
     [k \in DOMAIN month_order |-> IF k = 1 THEN Some(1) ELSE NaN]}

\* item b is sold one unit in May
RunSales ==
    {SeasonSales(units_a,
                 [k \in DOMAIN month_order |-> IF k = 1 THEN Some(1) ELSE NaN]) :
        units_a \in RunSeries}

RunUsage == {SeasonUsage, <<>>}

InitRuns ==
    /\ monthly_sales_item \in RunSales
    /\ ingredient_usage \in RunUsage
    /\ shipment_data = SeasonShipments
    /\ pc = "loaded"
    /\ sales_ingredients = <<>>
    /\ consumption_data = <<>>
    /\ monthly_consumption = <<>>
    /\ ingredient_summary = <<>>
    /\ monthly_consumption_with_shipment = <<>>
    /\ item_sales_with_ingredients = <<>>
    /\ processed_data = NoFile
    /\ key_statistics = <<>>
    /\ AnalysisNotStarted
    /\ DashboardNotStarted

\* Both scripts have ended; the cleaned tables are replaced and the scripts
\* are started again, with nothing in memory and with the files the earlier
\* runs left in processed_data/ and eda_output/.
RunOnOtherInputs ==
    /\ pc \in {"done", "KeyError"}
    /\ apc \in {"done", "KeyError"} \/ processed_data = NoFile
    /\ monthly_sales_item' \in RunSales
    /\ ingredient_usage' \in RunUsage
    /\ pc' = "loaded"
    /\ sales_ingredients' = <<>>
    /\ consumption_data' = <<>>
    /\ monthly_consumption' = <<>>
    /\ ingredient_summary' = <<>>
    /\ monthly_consumption_with_shipment' = <<>>
    /\ item_sales_with_ingredients' = <<>>
    /\ key_statistics' = <<>>
    /\ apc' = "idle"
    /\ analysis_data' = <<>>
    /\ consumption_pivot' = <<>>
    /\ anomalies' = <<>>
    /\ inventory_df' = <<>>
    /\ forecast_df' = <<>>
    /\ efficiency_analysis' = <<>>
    /\ UNCHANGED <<shipment_data, processed_data, eda_output>>
    /\ UNCHANGED dashboard_vars

NextRuns == Next \/ NextAnalysis \/ RunOnOtherInputs

SpecRuns == InitRuns /\ [][NextRuns]_vars

----------------------------------------------------------------------------
(* intermediate_processing.py on sales tables of several rows per month    *)

\* sales rows of two months whose calendar order is not the order of their
\* names, for the two items of the recipe sheet
AggregateSalesRows ==
    {r \in SalesRows : r.month \in {"May", "June"} /\ r.level_name \in Range(RecipeNames)}

\* both items use rice, item b also ramen: rows of different items fall into
\* the same (month, ingredient) group
SharedUsage ==
    <<[item_name |-> <<"a">>, amounts |-> [rice_g |-> MaxAmount, ramen_count |-> 0]],
      [item_name |-> <<"b">>,
       amounts |-> [rice_g |-> MaxAmount, ramen_count |-> MaxAmount]]>>

\* every sales table of 1 to MaxSales such rows, with the shared recipes or
\* with a recipe sheet without a row
InitAggregate ==
    /\ monthly_sales_item \in TablesOf(AggregateSalesRows, 1, MaxSales)
    /\ ingredient_usage \in {SharedUsage, <<>>}
    /\ shipment_data = SeasonShipments
    /\ pc = "loaded"
    /\ sales_ingredients = <<>>
    /\ consumption_data = <<>>
    /\ monthly_consumption = <<>>
    /\ ingredient_summary = <<>>
    /\ monthly_consumption_with_shipment = <<>>
    /\ item_sales_with_ingredients = <<>>
    /\ processed_data = NoFile
    /\ key_statistics = <<>>
    /\ AnalysisNotStarted
    /\ DashboardNotStarted

SpecAggregate == InitAggregate /\ [][Next]_vars

----------------------------------------------------------------------------
(* dashboard.py: the inventory figures of the Overview and the Inventory   *)
(* Management pages                                                        *)

\* x * k on floats, k a fraction
Times(x, k) == IF x = NaN THEN NaN ELSE Some(Scale(k, x[1]))

\* x - y on floats, for two values over the same square root
Minus(x, y) ==
    IF x = NaN \/ y = NaN THEN NaN
    ELSE Some(Real(RatSub(x[1].rat, y[1].rat), RatSub(x[1].coef, y[1].coef),
                   IF x[1].rad.num # 0 THEN x[1].rad ELSE y[1].rad))

\* x + y on floats, for two values over the same square root
Plus(x, y) ==
    IF x = NaN \/ y = NaN THEN NaN
    ELSE Some(Real(RatAdd(x[1].rat, y[1].rat), RatAdd(x[1].coef, y[1].coef),
                   IF x[1].rad.num # 0 THEN x[1].rad ELSE y[1].rad))

\* a < b for two fractions above 0, common factors taken out before the
\* cross-multiplication
Below(a, b) ==
    LET n == GCD(a.num, b.num)
        d == GCD(a.den, b.den)
    IN (a.num \div n) * (b.den \div d) < (b.num \div n) * (a.den \div d)

\* x > 0 on floats; a comparison with NaN is False.  With parts of opposite
\* signs, rat + coef * sqrt(rad) has the sign of the part that is larger in
\* absolute value: (rat / coef)^2 is compared with rad.
Positive(x) ==
    /\ x # NaN
    /\ LET r == x[1].rat
           c == x[1].coef
           q == FloatDivide(RatAbs(r), RatAbs(c))
           square == RatMul(q, q)
       IN IF r.num >= 0 /\ c.num >= 0 THEN r.num > 0 \/ c.num > 0
          ELSE IF r.num <= 0 /\ c.num <= 0 THEN FALSE
          ELSE IF r.num > 0 THEN Below(x[1].rad, square)
          ELSE Below(square, x[1].rad)

\* x > y on floats
GreaterThan(x, y) == Positive(Minus(x, y))

\* max(0, x)
MaxZero(x) == IF GreaterThan(Some(FromRat(Rat(0))), x) THEN Some(FromRat(Rat(0))) ELSE x

\* load_data(): pd.read_csv of the saved tables the two pages use; the
\* function is cached (st.cache_data), the files are read once
load_data(processed, eda) ==
    [inventory_optimization |-> eda.inventory_optimization[1],
     forecasting_data |-> eda.forecasting_data[1],
     cost_efficiency |-> eda.cost_efficiency[1],
     consumption_monthly |-> processed.ingredient_consumption_monthly,
     ingredient_summary |-> processed.ingredient_summary]

\* every file load_data reads is there (pd.read_csv raises otherwise)
FilesToLoad ==
    /\ processed_data # NoFile
    /\ eda_output.inventory_optimization # NoFile
    /\ eda_output.forecasting_data # NoFile
    /\ eda_output.cost_efficiency # NoFile

\* mutant: the stock is taken at the reorder point
CurrentInventoryAtReorderPoint(reorder_point) == reorder_point

\* current_inventory = reorder_point * 0.8
CurrentInventory(reorder_point) == Times(reorder_point, Ratio(8, 10))

\* forecasted_consumption / 30
DailyConsumption(forecasted_consumption) ==
    FloatDivide(forecasted_consumption, Rat(30))

\* x / daily_consumption if daily_consumption > 0 else 999
PerDayOr999(x, daily_consumption) ==
    IF daily_consumption.num > 0
    THEN Times(x, FloatDivide(Rat(1), daily_consumption))
    ELSE Some(FromRat(Rat(999)))

\* mutant: stock at the reorder point counts as "Good"
StatusNotBelow(current_inventory, reorder_point) ==
    IF ~GreaterThan(reorder_point, current_inventory) THEN "Good"
    ELSE IF GreaterThan(current_inventory, Times(reorder_point, Ratio(1, 2)))
    THEN "Low" ELSE "Critical"

\* "Good" if current_inventory > reorder_point else "Low" if
\* current_inventory > reorder_point * 0.5 else "Critical"
Status(current_inventory, reorder_point) ==
    IF GreaterThan(current_inventory, reorder_point) THEN "Good"
    ELSE IF GreaterThan(current_inventory, Times(reorder_point, Ratio(1, 2)))
    THEN "Low" ELSE "Critical"

\* Overview page: the row appended for an inventory row with a forecast
OverviewRow(row, forecast_data) ==
    LET reorder_point == row.reorder_point
        forecasted_consumption == forecast_data[1].forecast_next_month
        current_inventory == CurrentInventory(reorder_point)
        daily_consumption == DailyConsumption(forecasted_consumption)
    IN [status |-> Status(current_inventory, reorder_point),
        days_of_supply |-> PerDayOr999(current_inventory, daily_consumption)]

\* Inventory Management page: the row appended for an inventory row with a
\* forecast
ManagementRow(row, forecast_data) ==
    LET reorder_point == row.reorder_point
        safety_stock == row.safety_stock
        forecasted_consumption == forecast_data[1].forecast_next_month
        current_inventory == CurrentInventory(reorder_point)
        daily_consumption == DailyConsumption(forecasted_consumption)
        days_until_reorder ==
            PerDayOr999(Minus(current_inventory, reorder_point), daily_consumption)
    IN [ingredient |-> row.ingredient,
        current_inventory |-> current_inventory,
        reorder_point |-> reorder_point,
        status |-> Status(current_inventory, reorder_point),
        forecasted_consumption |-> forecasted_consumption,
        days_of_supply |-> PerDayOr999(current_inventory, daily_consumption),
        recommended_order_qty |->
            MaxZero(Plus(Minus(reorder_point, current_inventory), safety_stock)),
        days_until_reorder |->
            IF GreaterThan(Some(FromRat(Rat(0))), days_until_reorder)
            THEN Some(FromRat(Rat(0))) ELSE days_until_reorder,
        is_overstocked |->
            GreaterThan(current_inventory,
                        Some(FromRat(RatMul(forecasted_consumption, Ratio(15, 10)))))]

\* data['forecasting_data'][data['forecasting_data']['ingredient'] == ingredient]
ForecastOf(forecasting, ingredient) ==
    SelectSeq(forecasting, LAMBDA f : f.ingredient = ingredient)

\* for _, row in data['inventory_optimization'].iterrows(): the rows that
\* pass if len(forecast_data) > 0
WithForecast(inventory, forecasting) ==
    SelectSeq(inventory, LAMBDA row :
        Len(ForecastOf(forecasting, row.ingredient)) > 0)

\* the inventory_status list of the Overview page
OverviewStatus(inventory, forecasting) ==
    LET rows == WithForecast(inventory, forecasting)
    IN [k \in DOMAIN rows |->
          OverviewRow(rows[k], ForecastOf(forecasting, rows[k].ingredient))]

\* the inventory_status list of the Inventory Management page
ManagementStatus(inventory, forecasting) ==
    LET rows == WithForecast(inventory, forecasting)
    IN [k \in DOMAIN rows |->
          ManagementRow(rows[k], ForecastOf(forecasting, rows[k].ingredient))]

\* len(inv_df[inv_df['status'] == s])
StatusCount(status_rows, s) ==
    Len(SelectSeq(status_rows, LAMBDA r : r.status = s))

\* max(0, 100 - critical_count * 20 - low count * 10); 100 without a row
HealthScore(status_rows) ==
    IF status_rows = <<>> THEN 100
    ELSE LET score == 100 - StatusCount(status_rows, "Critical") * 20
                          - StatusCount(status_rows, "Low") * 10
         IN IF score > 0 THEN score ELSE 0

\* the script as Streamlit runs it with the Overview page selected
OverviewPage ==
    /\ dashboard_data # <<>> \/ FilesToLoad
    /\ dashboard_data' =
         IF dashboard_data # <<>> THEN dashboard_data
         ELSE Some(load_data(processed_data[1], eda_output))
    /\ page' = "Overview"
    /\ inventory_status' =
         OverviewStatus(dashboard_data'[1].inventory_optimization,
                        dashboard_data'[1].forecasting_data)
    /\ health_score' = Some(HealthScore(inventory_status'))
    /\ UNCHANGED <<monthly_sales_item, ingredient_usage, shipment_data, pc,
                   sales_ingredients, consumption_data, monthly_consumption,
                   ingredient_summary, monthly_consumption_with_shipment,
                   item_sales_with_ingredients, processed_data, key_statistics>>
    /\ UNCHANGED analysis_vars

\* the script with the Inventory Management page selected; the filter on
\* inventory_df['status'] raises KeyError on a table without a row
InventoryManagementPage ==
    /\ dashboard_data # <<>> \/ FilesToLoad
    /\ dashboard_data' =
         IF dashboard_data # <<>> THEN dashboard_data
         ELSE Some(load_data(processed_data[1], eda_output))
    /\ inventory_status' =
         ManagementStatus(dashboard_data'[1].inventory_optimization,
                          dashboard_data'[1].forecasting_data)
    /\ page' = IF inventory_status' = <<>> THEN "KeyError"
               ELSE "Inventory Management"
    /\ health_score' = NaN
    /\ UNCHANGED <<monthly_sales_item, ingredient_usage, shipment_data, pc,
                   sales_ingredients, consumption_data, monthly_consumption,
                   ingredient_summary, monthly_consumption_with_shipment,
                   item_sales_with_ingredients, processed_data, key_statistics>>
    /\ UNCHANGED analysis_vars

NextDashboard == NextAnalysis \/ OverviewPage \/ InventoryManagementPage

SpecDashboard == InitAnalysis /\ [][NextDashboard]_vars

----------------------------------------------------------------------------
(* Properties *)

RECURSIVE SumOver(_, _)
\* the sum of f over the finite set S
SumOver(S, f) ==
    IF S = {} THEN 0
    ELSE LET x == CHOOSE y \in S : TRUE IN f[x] + SumOver(S \ {x}, f)

Started == pc # "loaded"
Aggregated == pc \in {"consumption", "summary", "shipments", "items", "done"}
Summarised == pc \in {"summary", "shipments", "items", "done"}

\* the recipe rows of the item of sales row i
RecipesOf(i) ==
    {u \in Range(ingredient_usage) : u.item_name = monthly_sales_item[i].level_name}

\* the (sales row, recipe row, ingredient) triples that use an ingredient
Uses ==
    {t \in (DOMAIN monthly_sales_item) \X Range(ingredient_usage) \X Range(ingredient_cols) :
        /\ t[2] \in RecipesOf(t[1])
        /\ t[2].amounts[t[3]] > 0}

ExpectedRecord(t) ==
    LET sale == monthly_sales_item[t[1]]
    IN [month |-> sale.month, item_name |-> t[2].item_name,
        sales_count |-> sale.Count, ingredient |-> t[3],
        consumption_per_item |-> t[2].amounts[t[3]],
        total_consumption |-> sale.Count * t[2].amounts[t[3]],
        revenue |-> sale.Amount]

\* C1: the ConsumptionRecords are exactly one record per (matched sales row,
\* ingredient with amount_per_unit > 0), with total_consumption =
\* units_sold * amount_per_unit and the full revenue of the sales row; no
\* other record is emitted.
C1_ConsumptionEmission ==
    Started =>
        \A x \in Range(consumption_data) \cup {ExpectedRecord(t) : t \in Uses} :
            Cardinality({k \in DOMAIN consumption_data : consumption_data[k] = x})
                = Cardinality({t \in Uses : ExpectedRecord(t) = x})

\* a sale of an item using two ingredients: two records, each with the sale's
\* full revenue
C1_Witness ==
    /\ pc = "done"
    /\ Len(monthly_sales_item) = 1
    /\ monthly_sales_item[1].Count = MaxCount
    /\ Len(consumption_data) = 2
    /\ \A k \in DOMAIN consumption_data :
         /\ consumption_data[k].revenue = monthly_sales_item[1].Amount
         /\ consumption_data[k].total_consumption = MaxCount * MaxAmount

RecordsOfKey(k) ==
    {j \in DOMAIN consumption_data :
        <<consumption_data[j].month, consumption_data[j].ingredient>> = k}

\* C2: the aggregate has exactly one row per (month, ingredient) occurring in
\* a ConsumptionRecord, holding the sums of total_consumption, revenue and
\* units sold over the records of that month and ingredient.
C2_AggregateSums ==
    Aggregated =>
        /\ \A i, j \in DOMAIN monthly_consumption :
             i # j => <<monthly_consumption[i].month, monthly_consumption[i].ingredient>>
                      # <<monthly_consumption[j].month, monthly_consumption[j].ingredient>>
        /\ {<<r.month, r.ingredient>> : r \in Range(monthly_consumption)}
             = {<<x.month, x.ingredient>> : x \in Range(consumption_data)}
        /\ \A r \in Range(monthly_consumption) :
             LET js == RecordsOfKey(<<r.month, r.ingredient>>)
             IN /\ r.total_consumption =
                     SumOver(js, [j \in js |-> consumption_data[j].total_consumption])
                /\ r.revenue = SumOver(js, [j \in js |-> consumption_data[j].revenue])
                /\ r.sales_count =
                     SumOver(js, [j \in js |-> consumption_data[j].sales_count])

\* an aggregate row that sums two records, next to a row of another month
C2_Witness ==
    /\ pc = "done"
    /\ \E r \in Range(monthly_consumption) :
         /\ Cardinality(RecordsOfKey(<<r.month, r.ingredient>>)) = 2
         /\ r.sales_count = 2 * MaxCount
         /\ r.revenue = 2 * MaxRevenue

\* C3: a recipe amount of zero produces no ConsumptionRecord (not a record
\* with total_consumption = 0), and a month in which no matched sale uses an
\* ingredient with a positive amount has no aggregate row for it.
C3_ZeroAmountExcluded ==
    Started =>
        /\ \A u \in Range(ingredient_usage), c \in Range(ingredient_cols) :
             u.amounts[c] = 0 =>
                ~ \E x \in Range(consumption_data) :
                     x.item_name = u.item_name /\ x.ingredient = c
        /\ \A m \in Months, c \in Range(ingredient_cols) :
             (~ \E t \in Uses : monthly_sales_item[t[1]].month = m /\ t[3] = c)
                => ~ \E r \in Range(monthly_consumption) :
                        r.month = m /\ r.ingredient = c

\* a sold item whose recipe uses one ingredient and has zero of the other:
\* the month has an aggregate row for the first only
C3_Witness ==
    /\ pc = "done"
    /\ \E i \in DOMAIN monthly_sales_item : \E u \in RecipesOf(i) :
         /\ u.amounts["rice_g"] > 0
         /\ u.amounts["ramen_count"] = 0
         /\ monthly_sales_item[i].Count > 0
         /\ \E r \in Range(monthly_consumption) :
              r.month = monthly_sales_item[i].month /\ r.ingredient = "rice_g"
         /\ ~ \E r \in Range(monthly_consumption) :
              r.month = monthly_sales_item[i].month /\ r.ingredient = "ramen_count"

UnmatchedRows == {i \in DOMAIN monthly_sales_item : RecipesOf(i) = {}}

\* C4: a sales row whose item matches no recipe contributes no
\* ConsumptionRecord, is kept in the saved item-level sales output with
\* has_ingredient_data = FALSE, and the printed statistics give the number of
\* items without ingredient data (items with sales minus items matched).
C4_UnmatchedKeptAndCounted ==
    pc \in {"done", "KeyError"} =>
        \A i \in UnmatchedRows :
            /\ ~ \E x \in Range(consumption_data) :
                    x.item_name = monthly_sales_item[i].level_name
            /\ processed_data # NoFile
            /\ \E r \in Range(processed_data[1].item_sales_with_ingredients) :
                 /\ r.month = monthly_sales_item[i].month
                 /\ r.level_name = monthly_sales_item[i].level_name
                 /\ r.has_ingredient_data = FALSE
            /\ key_statistics # <<>>
            /\ key_statistics[1].items_with_sales - key_statistics[1].items_matched
                 = Cardinality({monthly_sales_item[j].level_name : j \in UnmatchedRows})

\* C5: no input makes the run raise: it never ends in KeyError, and a finished
\* run in which no sales row uses an ingredient has zero ConsumptionRecords,
\* zero aggregate rows and zero ingredient profiles.
C5_UnmatchedNeverRaises ==
    /\ pc # "KeyError"
    /\ (pc = "done" /\ Uses = {}) =>
          /\ consumption_data = <<>>
          /\ monthly_consumption = <<>>
          /\ ingredient_summary = <<>>

\* C6: in a finished run a sales row is merged with a recipe row iff their
\* names are equal after stripping surrounding whitespace from both.
C6_TrimmedNamesMatch ==
    pc = "done" =>
        \A i \in DOMAIN monthly_sales_item, u \in Range(ingredient_usage) :
            (\E r \in Range(sales_ingredients) :
                /\ r.month = monthly_sales_item[i].month
                /\ r.level_name = monthly_sales_item[i].level_name
                /\ r.item_name = u.item_name)
            <=> Strip(monthly_sales_item[i].level_name) = Strip(u.item_name)

\* C7: the aggregate rows are in ascending order of (calendar position of the
\* month, ingredient name).
C7_CalendarSorted ==
    Aggregated =>
        \A i, j \in DOMAIN monthly_consumption :
            i < j =>
                \/ MonthIndex(monthly_consumption[i].month)
                     < MonthIndex(monthly_consumption[j].month)
                \/ /\ monthly_consumption[i].month = monthly_consumption[j].month
                   /\ StrRank(monthly_consumption[i].ingredient)
                        < StrRank(monthly_consumption[j].ingredient)

\* two months whose calendar order is the reverse of their alphabetical
\* order, the earlier one with both ingredients in ascending order
C7_Witness ==
    /\ pc = "done"
    /\ Len(monthly_consumption) = 3
    /\ monthly_consumption[1].month = "May"
    /\ monthly_consumption[1].ingredient = "ramen_count"
    /\ monthly_consumption[2].month = "May"
    /\ monthly_consumption[2].ingredient = "rice_g"
    /\ monthly_consumption[3].month = "June"

AggregateRowsOf(ingredient) ==
    {i \in DOMAIN monthly_consumption : monthly_consumption[i].ingredient = ingredient}

\* C8: a profile's total_consumption_6months is the sum of total_consumption
\* over the ingredient's aggregate rows, and so the sum of units_sold *
\* amount_per_unit over the matched sales rows that use the ingredient.
C8_TotalIsSumOfMonths ==
    Summarised =>
        \A p \in Range(ingredient_summary) :
            LET rows == AggregateRowsOf(p.ingredient)
                uses == {t \in Uses : t[3] = p.ingredient}
            IN /\ p.total_consumption_6months =
                    SumOver(rows, [i \in rows |-> monthly_consumption[i].total_consumption])
               /\ p.total_consumption_6months =
                    SumOver(uses, [t \in uses |->
                        monthly_sales_item[t[1]].Count * t[2].amounts[t[3]]])

\* a profile whose total spans two months
C8_Witness ==
    /\ pc = "done"
    /\ \E p \in Range(ingredient_summary) :
         /\ Cardinality(AggregateRowsOf(p.ingredient)) = 2
         /\ p.total_consumption_6months = 2 * MaxCount * MaxAmount

\* C9: months_active is the number of months with an aggregate row for the
\* ingredient, between 1 and 6, and avg_monthly_consumption is
\* total_consumption_6months / months_active.
C9_AverageOverActiveMonths ==
    Summarised =>
        \A p \in Range(ingredient_summary) :
            /\ p.months_active =
                 Cardinality({m \in Months : \E r \in Range(monthly_consumption) :
                                 r.month = m /\ r.ingredient = p.ingredient})
            /\ p.months_active \in 1..Len(month_order)
            /\ p.avg_monthly_consumption.den > 0
            /\ p.avg_monthly_consumption.num * p.months_active
                 = p.total_consumption_6months * p.avg_monthly_consumption.den

\* an ingredient active in two of the six months with a positive total
C9_Witness ==
    /\ pc = "done"
    /\ \E p \in Range(ingredient_summary) :
         /\ p.months_active = 2
         /\ p.total_consumption_6months > 0
         /\ p.avg_monthly_consumption = [num |-> MaxCount * MaxAmount, den |-> 1]

\* the shipment rows whose name maps to the ingredient
MappedShipments(ingredient) ==
    {k \in DOMAIN shipment_data :
        ingredient_mapping(shipment_data[k].ingredient) = <<ingredient>>}

\* C10: has_shipment_data holds iff a shipment row maps to the ingredient;
\* without one, quantity_per_shipment, unit, num_shipments and frequency are
\* absent and none of them is 0, while a mapped row's quantity, zero
\* included, is present.
C10_ShipmentAbsentNotZero ==
    Summarised =>
        \A p \in Range(ingredient_summary) :
            /\ p.has_shipment_data <=> MappedShipments(p.ingredient) # {}
            /\ ~p.has_shipment_data =>
                 /\ p.quantity_per_shipment = NaN
                 /\ p.unit = NaN
                 /\ p.num_shipments = NaN
                 /\ p.frequency = NaN
                 /\ <<0>> \notin {p.quantity_per_shipment, p.unit,
                                  p.num_shipments, p.frequency}
            /\ p.has_shipment_data =>
                 \E k \in MappedShipments(p.ingredient) :
                    p.quantity_per_shipment = <<shipment_data[k].quantity_per_shipment>>

\* a profile without shipment data although the shipment sheet has a row,
\* next to a profile whose shipment quantity is zero
C10_Witness ==
    /\ pc = "done"
    /\ shipment_data # <<>>
    /\ \E p, q \in Range(ingredient_summary) :
         /\ ~p.has_shipment_data
         /\ p.quantity_per_shipment = NaN
         /\ q.has_shipment_data
         /\ q.quantity_per_shipment = <<0>>

----------------------------------------------------------------------------
(* Properties of advanced_analysis.py *)

InventoryDone == apc \in {"inventory", "forecast", "KeyError", "done"}

\* the saved aggregate rows of an ingredient, the number of its active months,
\* the sum and the sum of squares of its monthly consumption
SeriesOf(g) ==
    {r \in Range(processed_data[1].ingredient_consumption_monthly) :
        r.ingredient = g}

CountOf(g) == Cardinality(SeriesOf(g))

SumOf(g) == SumOver(SeriesOf(g), [r \in SeriesOf(g) |-> r.total_consumption])

SumSquaresOf(g) ==
    SumOver(SeriesOf(g),
            [r \in SeriesOf(g) |-> r.total_consumption * r.total_consumption])

\* n * sum of squares - (sum)^2 = n * (sum of the squared deviations)
SpreadOf(g) == CountOf(g) * SumSquaresOf(g) - SumOf(g) * SumOf(g)

AvgOf(g) == Ratio(SumOf(g), CountOf(g))

\* the sample variance (divisor n - 1) of two or more months
SampleVarianceOf(g) == Ratio(SpreadOf(g), CountOf(g) * (CountOf(g) - 1))

StdPositive(g) == CountOf(g) >= 2 /\ SpreadOf(g) > 0

IngredientsSaved ==
    {r.ingredient : r \in Range(processed_data[1].ingredient_consumption_monthly)}

\* C11: every ingredient has an inventory row whose safety_stock is 1.65
\* times the standard deviation of its monthly consumption when that
\* deviation is greater than zero, and 0.2 times its average monthly
\* consumption when the deviation is zero or undefined.
C11_SafetyStock ==
    InventoryDone =>
        /\ {r.ingredient : r \in Range(inventory_df)} = IngredientsSaved
        /\ \A r \in Range(inventory_df) :
             r.safety_stock =
                 IF StdPositive(r.ingredient)
                 THEN Some(Real(Rat(0), Ratio(165, 100),
                                SampleVarianceOf(r.ingredient)))
                 ELSE Some(FromRat(RatMul(AvgOf(r.ingredient), Ratio(1, 5))))

\* one ingredient with a varying consumption and one with the same positive
\* consumption in each of its four months
C11_Witness ==
    /\ apc = "done"
    /\ \E r, q \in Range(inventory_df) :
         /\ StdPositive(r.ingredient)
         /\ r.safety_stock[1].coef = Ratio(165, 100)
         /\ CountOf(q.ingredient) = 4
         /\ SpreadOf(q.ingredient) = 0
         /\ q.safety_stock[1].coef = Rat(0)
         /\ q.safety_stock[1].rat = Ratio(MaxAmount, 5)

\* C12: an ingredient with exactly one active month has safety_stock = 0.2
\* times its average monthly consumption: the undefined deviation of one
\* value takes the fallback and does not reach the result.
C12_SingleMonthFallback ==
    InventoryDone =>
        \A g \in IngredientsSaved :
            CountOf(g) = 1 =>
                \E r \in Range(inventory_df) :
                    /\ r.ingredient = g
                    /\ r.std_monthly_consumption = NaN
                    /\ r.safety_stock # NaN
                    /\ r.safety_stock[1] = FromRat(Ratio(SumOf(g), 5))

\* rice consumed in one month only, MaxUnits units of the item sold
C12_Witness ==
    /\ InventoryDone
    /\ \E r \in Range(inventory_df) :
         /\ CountOf(r.ingredient) = 1
         /\ SumOf(r.ingredient) = MaxUnits * MaxAmount
         /\ r.safety_stock = Some(FromRat(Ratio(MaxUnits * MaxAmount, 5)))

\* C13: reorder_point = avg_monthly_consumption + safety_stock, the average
\* being the mean of the ingredient's consumption over its active months.
C13_ReorderPoint ==
    InventoryDone =>
        \A r \in Range(inventory_df) :
            /\ r.avg_monthly_consumption = AvgOf(r.ingredient)
            /\ r.safety_stock # NaN
            /\ r.reorder_point # NaN
            /\ r.reorder_point[1].rat =
                   RatAdd(AvgOf(r.ingredient), r.safety_stock[1].rat)
            /\ r.reorder_point[1].coef = r.safety_stock[1].coef
            /\ r.reorder_point[1].rad = r.safety_stock[1].rad

\* a row whose safety stock comes from the deviation and a row whose safety
\* stock is the fallback, both with a positive average
C13_Witness ==
    /\ InventoryDone
    /\ \E r, q \in Range(inventory_df) :
         /\ SumOf(r.ingredient) > 0
         /\ r.safety_stock[1].coef # Rat(0)
         /\ r.reorder_point[1].rat = AvgOf(r.ingredient)
         /\ SumOf(q.ingredient) > 0
         /\ q.safety_stock[1].coef = Rat(0)
         /\ q.reorder_point[1].rat = RatMul(AvgOf(q.ingredient), Ratio(6, 5))

\* std > factor * avg for the sample deviation of g, by squares:
\* var > (num/den)^2 * avg^2, with var = spread / (n (n - 1)), avg = sum / n
DeviationExceeds(g, num, den) ==
    /\ CountOf(g) >= 2
    /\ den * den * CountOf(g) * SpreadOf(g)
           > num * num * (CountOf(g) - 1) * SumOf(g) * SumOf(g)

\* C14: each ingredient gets exactly one risk level: HIGH iff std > 0.5 avg,
\* MEDIUM iff 0.3 avg < std <= 0.5 avg, LOW otherwise (std = 0.3 avg, std
\* zero, and the undefined std of a single month included).
C14_RiskLevel ==
    InventoryDone =>
        \A g \in IngredientsSaved :
            \E r \in Range(inventory_df) :
                /\ r.ingredient = g
                /\ \A q \in Range(inventory_df) : q.ingredient = g => q = r
                /\ r.risk_level \in {"HIGH", "MEDIUM", "LOW"}
                /\ r.risk_level = "HIGH" <=> DeviationExceeds(g, 5, 10)
                /\ r.risk_level = "MEDIUM" <=>
                       (DeviationExceeds(g, 3, 10) /\ ~DeviationExceeds(g, 5, 10))

\* a MEDIUM ingredient next to a single-month ingredient, which is LOW
C14_Witness ==
    /\ InventoryDone
    /\ \E r, q \in Range(inventory_df) :
         /\ r.risk_level = "MEDIUM"
         /\ CountOf(q.ingredient) = 1
         /\ q.risk_level = "LOW"

AnomaliesDone == apc \in {"anomalies", "inventory", "forecast", "KeyError", "done"}

\* C15: anomaly detection emits no row for an ingredient with fewer than 3
\* non-missing months, in the list or in detected_anomalies.csv.
C15_FewMonthsNoAnomaly ==
    AnomaliesDone =>
        /\ \A a \in Range(anomalies) : CountOf(a.ingredient) >= 3
        /\ eda_output.detected_anomalies # NoFile =>
             \A a \in Range(eda_output.detected_anomalies[1]) :
                 CountOf(a.ingredient) >= 3

\* anomalies are reported for one ingredient while the other, consumed in
\* fewer than 3 months, has none
C15_Witness ==
    /\ AnomaliesDone
    /\ anomalies # <<>>
    /\ \E g \in IngredientsSaved :
         /\ CountOf(g) < 3
         /\ SumOf(g) > 0
         /\ \A a \in Range(anomalies) : a.ingredient # g

Reported(g, month) ==
    \E a \in Range(anomalies) : a.ingredient = g /\ a.month = month

\* n * value - sum = n * (value - mean)
Offset(g, r) == CountOf(g) * r.total_consumption - SumOf(g)

\* z > 2 for the z-score on the population deviation (divisor n):
\* z^2 = (n v - S)^2 / spread
PopulationZAbove2(g, r) ==
    SpreadOf(g) > 0 /\ Offset(g, r) * Offset(g, r) > 4 * SpreadOf(g)

\* z > 2 for the z-score on the sample deviation (divisor n - 1):
\* z^2 = (n - 1) (n v - S)^2 / (n spread)
SampleZAbove2(g, r) ==
    /\ SpreadOf(g) > 0
    /\ (CountOf(g) - 1) * Offset(g, r) * Offset(g, r)
           > 4 * CountOf(g) * SpreadOf(g)

\* C16 as stated: for an ingredient with 3 or more non-missing months a month
\* is reported iff the population deviation is positive and
\* |value - mean| / (population deviation) > 2.
C16_PopulationZScore ==
    AnomaliesDone =>
        \A g \in IngredientsSaved :
            CountOf(g) >= 3 =>
                \A r \in SeriesOf(g) :
                    Reported(g, r.month) <=> PopulationZAbove2(g, r)

\* C16 amended: for an ingredient with 3 or more non-missing months a month
\* is reported iff the sample deviation (divisor n - 1) is positive and
\* z = |value - mean| / (sample deviation) > 2 strictly; the row carries
\* that z.
C16_SampleZScore ==
    AnomaliesDone =>
        /\ \A g \in IngredientsSaved :
             CountOf(g) >= 3 =>
                 \A r \in SeriesOf(g) :
                     Reported(g, r.month) <=> SampleZAbove2(g, r)
        /\ \A a \in Range(anomalies) :
             \E r \in SeriesOf(a.ingredient) :
                 /\ r.month = a.month
                 /\ a.consumption = r.total_consumption
                 /\ RatMul(RatMul(a.z_score.coef, a.z_score.coef), a.z_score.rad)
                        = Ratio((CountOf(a.ingredient) - 1)
                                    * Offset(a.ingredient, r) * Offset(a.ingredient, r),
                                CountOf(a.ingredient) * SpreadOf(a.ingredient))

\* a month of the largest consumption is reported for an ingredient whose
\* other months have a smaller positive consumption and are not reported
C16_Witness ==
    /\ AnomaliesDone
    /\ \E a \in Range(anomalies) :
         /\ CountOf(a.ingredient) >= 3
         /\ a.consumption = MaxUnits * MaxAmount
         /\ \A r \in SeriesOf(a.ingredient) :
              r.month # a.month =>
                  /\ r.total_consumption > 0
                  /\ ~Reported(a.ingredient, r.month)

ForecastActed == apc \in {"forecast", "KeyError", "done"}

\* the aggregate row of the latest active month of g in calendar order
LatestOf(g) ==
    CHOOSE r \in SeriesOf(g) :
        \A q \in SeriesOf(g) : MonthIndex(q.month) <= MonthIndex(r.month)

\* C17: the forecast table has a row for an ingredient iff the ingredient has
\* 4 or more non-missing months, at most one row each; in every row
\* forecast_next_month = last_value + avg_monthly_change and last_value is
\* the consumption of the latest active month in calendar order.
C17_ForecastRows ==
    ForecastActed =>
        /\ \A g \in IngredientsSaved :
             (\E r \in Range(forecast_df) : r.ingredient = g) <=> CountOf(g) >= 4
        /\ \A i, j \in DOMAIN forecast_df :
             forecast_df[i].ingredient = forecast_df[j].ingredient => i = j
        /\ \A r \in Range(forecast_df) :
             /\ r.ingredient \in IngredientsSaved
             /\ r.last_value = LatestOf(r.ingredient).total_consumption
             /\ r.forecast_next_month = RatAdd(Rat(r.last_value), r.avg_monthly_change)
        /\ apc # "KeyError" => eda_output.forecasting_data = Some(forecast_df)

\* a forecast row for an ingredient whose four months are not consecutive
\* and whose consumption changed, none for an ingredient of one month
C17_Witness ==
    /\ apc = "done"
    /\ \E r \in Range(forecast_df) :
         /\ CountOf(r.ingredient) = 4
         /\ MonthIndex(LatestOf(r.ingredient).month) = 5
         /\ r.avg_monthly_change # Rat(0)
         /\ r.last_value > 0
    /\ \E g \in IngredientsSaved :
         CountOf(g) = 1 /\ \A r \in Range(forecast_df) : r.ingredient # g

\* C18: cost_efficiency.csv has exactly one row per ingredient, with the
\* fields ingredient, total_consumption, total_revenue and revenue_per_unit,
\* revenue_per_unit being the ingredient's revenue sum over its consumption
\* sum, so that each row tells which ingredient it belongs to.
C18_EfficiencyTable ==
    apc = "done" =>
        /\ eda_output.cost_efficiency # NoFile
        /\ LET table == eda_output.cost_efficiency[1]
           IN /\ Len(table) = Cardinality(IngredientsSaved)
              /\ \A g \in IngredientsSaved :
                   \E i \in DOMAIN table :
                       /\ DOMAIN table[i] = {"ingredient", "total_consumption",
                                              "total_revenue", "revenue_per_unit"}
                       /\ table[i].ingredient = g
                       /\ table[i].total_consumption = SumOf(g)
                       /\ SumOf(g) > 0 =>
                              table[i].revenue_per_unit =
                                  Ratio(SumOver(SeriesOf(g),
                                            [r \in SeriesOf(g) |-> r.revenue]),
                                        SumOf(g))

\* C19: no metric is the result of a division by a zero or missing
\* denominator: revenue_per_unit is 0 or absent when the total consumption
\* is 0, the anomaly z-score and deviation and the forecast volatility are
\* finite, and the estimated shipments are absent when quantity_per_shipment
\* is 0 or absent.
C19_DivisionsGuarded ==
    /\ \A r \in Range(efficiency_analysis) :
         r.total_consumption = 0 => r.revenue_per_unit \in {Rat(0), NotANumber}
    /\ \A a \in Range(anomalies) :
         a.deviation.den # 0 /\ a.z_score.coef.den # 0
    /\ \A r \in Range(forecast_df) : r.volatility.coef.den # 0
    /\ \A r \in Range(monthly_consumption_with_shipment) :
         (r.quantity_per_shipment = NaN \/ r.quantity_per_shipment[1] = 0)
             => r.estimated_shipments_needed = NaN

OutputFiles == DOMAIN eda_output

\* C20: the pipeline is idempotent and deterministic: a run on the inputs of
\* an earlier run leaves every table that run saved as it was (the
\* ConsumptionRecords, aggregates and profiles of processed_data/, the
\* inventory, forecast and cost-efficiency tables of eda_output/): same
\* rows, same values, same order.
C20_RerunIdempotent ==
    [][/\ processed_data # NoFile => processed_data' = processed_data
       /\ \A f \in OutputFiles :
            eda_output[f] # NoFile => eda_output'[f] = eda_output[f]]_vars

\* a second run in progress: the processed tables and the forecast table
\* are written again, over the files of the first run, whose cost-efficiency
\* table is still there
C20_Witness ==
    /\ pc = "done"
    /\ apc = "forecast"
    /\ eda_output.cost_efficiency # NoFile
    /\ eda_output.forecasting_data = Some(forecast_df)
    /\ processed_data = Some(SavedFiles)
    /\ Len(consumption_data) > 4

\* C21: when a pipeline run has finished, every output table holds what that
\* run computed from its inputs and nothing else: the processed tables, the
\* inventory, forecast and cost-efficiency tables are the run's, and the
\* detected-anomalies table holds the run's anomalies, no row at all when the
\* run found none.
C21_LatestRunOnly ==
    (pc = "done" /\ apc = "done") =>
        /\ processed_data = Some(SavedFiles)
        /\ eda_output.inventory_optimization = Some(inventory_df)
        /\ eda_output.forecasting_data = Some(forecast_df)
        /\ eda_output.cost_efficiency = Some(ToCsvWithoutIndex(efficiency_analysis))
        /\ IF anomalies = <<>>
           THEN eda_output.detected_anomalies \in {NoFile, Some(<<>>)}
           ELSE eda_output.detected_anomalies = Some(anomalies)

ForecastSaved == apc \in {"forecast", "done"}

\* the calendar positions (0 = May) of the active months of g, and the
\* consumption of g in the month at position k
ActiveMonths(g) == {MonthIndex(r.month) : r \in SeriesOf(g)}

ValueAt(g, k) ==
    (CHOOSE r \in SeriesOf(g) : MonthIndex(r.month) = k).total_consumption

\* the positions k such that g is active in month k and in month k + 1
ConsecutivePairs(g) ==
    {k \in ActiveMonths(g) : k + 1 \in ActiveMonths(g)}

\* C22: avg_monthly_change is the mean of the differences between
\* calendar-consecutive active months of the ingredient; the jump across a
\* missing month is not one of the differences.
C22_ConsecutiveMonthChange ==
    ForecastSaved =>
        \A r \in Range(forecast_df) :
            LET pairs == ConsecutivePairs(r.ingredient)
            IN pairs # {} =>
                 r.avg_monthly_change =
                     Ratio(SumOver(pairs,
                               [k \in pairs |-> ValueAt(r.ingredient, k + 1)
                                                  - ValueAt(r.ingredient, k)]),
                           Cardinality(pairs))

\* the position of an aggregate row among the active months of its
\* ingredient, in calendar order, from 0
PositionOf(r) ==
    Cardinality({q \in SeriesOf(r.ingredient) :
                    MonthIndex(q.month) < MonthIndex(r.month)})

\* the least-squares slope of the points (position, consumption) of g
LeastSquaresSlope(g) ==
    LET S == SeriesOf(g)
        n == CountOf(g)
        sum_i == SumOver(S, [r \in S |-> PositionOf(r)])
        sum_ii == SumOver(S, [r \in S |-> PositionOf(r) * PositionOf(r)])
        sum_iv == SumOver(S, [r \in S |-> PositionOf(r) * r.total_consumption])
    IN Ratio(n * sum_iv - sum_i * SumOf(g), n * sum_ii - sum_i * sum_i)

\* C23: trend_slope is the slope of the least-squares line through the
\* points (i, v_i), i = 0 .. n-1, of the ingredient's non-missing monthly
\* values in calendar order, (n S(i v) - S(i) S(v)) / (n S(i^2) - S(i)^2); it
\* is 0 for a constant series.
C23_TrendSlope ==
    ForecastSaved =>
        \A r \in Range(forecast_df) :
            /\ r.trend_slope = LeastSquaresSlope(r.ingredient)
            /\ SpreadOf(r.ingredient) = 0 => r.trend_slope = Rat(0)

\* a forecast row of an ingredient with a missing month between active
\* months, whose slope is neither zero nor its average change, next to the
\* row of a constant series
C23_Witness ==
    /\ ForecastSaved
    /\ \E r, q \in Range(forecast_df) :
         /\ CountOf(r.ingredient) < Len(month_order)
         /\ Cardinality(ConsecutivePairs(r.ingredient)) < CountOf(r.ingredient) - 1
         /\ r.trend_slope # Rat(0)
         /\ r.trend_slope # r.avg_monthly_change
         /\ SpreadOf(q.ingredient) = 0
         /\ SumOf(q.ingredient) > 0
         /\ q.trend_slope = Rat(0)

\* the aggregate row of the earliest active month of g in calendar order
FirstOf(g) ==
    CHOOSE r \in SeriesOf(g) :
        \A q \in SeriesOf(g) : MonthIndex(r.month) <= MonthIndex(q.month)

\* C28: avg_monthly_change = (last_value - first_value) / (n - 1) over the n
\* non-missing months, so forecast_next_month = last_value + (last_value -
\* first_value) / (n - 1): the months in between and trend_slope have no
\* part in it.
C28_Telescopes ==
    ForecastSaved =>
        \A r \in Range(forecast_df) :
            LET first_value == FirstOf(r.ingredient).total_consumption
                last_value == LatestOf(r.ingredient).total_consumption
                drift == Ratio(last_value - first_value, CountOf(r.ingredient) - 1)
            IN /\ r.avg_monthly_change = drift
               /\ r.forecast_next_month = RatAdd(Rat(last_value), drift)

\* a forecast row of a series that rises above its first and last value in
\* between, and whose slope differs from its average change
C28_Witness ==
    /\ ForecastSaved
    /\ \E r \in Range(forecast_df) :
         /\ \E q \in SeriesOf(r.ingredient) :
              /\ q.total_consumption > FirstOf(r.ingredient).total_consumption
              /\ q.total_consumption > LatestOf(r.ingredient).total_consumption
         /\ FirstOf(r.ingredient).total_consumption
                # LatestOf(r.ingredient).total_consumption
         /\ r.trend_slope # r.avg_monthly_change

\* C24: an ingredient whose 4 or more active months all have the same
\* consumption c > 0 has safety_stock = 0.2 c, reorder_point = 1.2 c,
\* risk_level LOW, no anomaly row, avg_monthly_change = 0 and
\* forecast_next_month = c.
C24_ConstantSeries ==
    apc = "done" =>
        \A g \in IngredientsSaved :
            (CountOf(g) >= 4 /\ SpreadOf(g) = 0 /\ SumOf(g) > 0) =>
                LET c == LatestOf(g).total_consumption
                IN /\ \E r \in Range(inventory_df) :
                        /\ r.ingredient = g
                        /\ r.safety_stock = Some(FromRat(Ratio(2 * c, 10)))
                        /\ r.reorder_point = Some(FromRat(Ratio(12 * c, 10)))
                        /\ r.risk_level = "LOW"
                   /\ \A a \in Range(anomalies) : a.ingredient # g
                   /\ \E r \in Range(forecast_df) :
                        /\ r.ingredient = g
                        /\ r.avg_monthly_change = Rat(0)
                        /\ r.forecast_next_month = Rat(c)

\* rice consumed MaxUnits * MaxAmount in each of five months
C24_Witness ==
    /\ apc = "done"
    /\ \E r \in Range(forecast_df) :
         /\ CountOf(r.ingredient) = 5
         /\ SpreadOf(r.ingredient) = 0
         /\ r.last_value = MaxUnits * MaxAmount
         /\ r.forecast_next_month = Rat(MaxUnits * MaxAmount)

\* C27: with the z-score on the sample deviation, no month is flagged for an
\* ingredient with fewer than 6 non-missing months: every anomaly row belongs
\* to an ingredient active in all six months.
C27_AnomalyNeedsSixMonths ==
    AnomaliesDone =>
        \A a \in Range(anomalies) : CountOf(a.ingredient) = Len(month_order)

\* an ingredient of five months, four of them without consumption, and the
\* fifth at the largest: the furthest a month of five can be from the others,
\* and not flagged; the other ingredient has a row
C27_Witness ==
    /\ AnomaliesDone
    /\ \E g \in IngredientsSaved :
         /\ CountOf(g) = 5
         /\ SumOf(g) = MaxUnits * MaxAmount
         /\ SumSquaresOf(g) = SumOf(g) * SumOf(g)
         /\ \A a \in Range(anomalies) : a.ingredient # g

\* C29: the ingredients with a profile row, with an aggregate row and with an
\* inventory row are the same set, one profile and one inventory row each;
\* the ingredients of the forecast table are among them.
C29_KeySetsAgree ==
    InventoryDone =>
        LET aggregates == {r.ingredient : r \in Range(monthly_consumption)}
            profiles == analysis_data.ingredient_summary
        IN /\ {r.ingredient : r \in Range(ingredient_summary)} = aggregates
           /\ \A i, j \in DOMAIN ingredient_summary :
                ingredient_summary[i].ingredient = ingredient_summary[j].ingredient
                    => i = j
           /\ profiles = ingredient_summary
           /\ {r.ingredient : r \in Range(inventory_df)} = aggregates
           /\ \A i, j \in DOMAIN inventory_df :
                inventory_df[i].ingredient = inventory_df[j].ingredient => i = j
           /\ {r.ingredient : r \in Range(forecast_df)} \subseteq aggregates

\* two ingredients with a profile and an inventory row each, one of them in
\* the forecast table
C29_Witness ==
    /\ apc = "done"
    /\ Len(ingredient_summary) = 2
    /\ Len(inventory_df) = 2
    /\ Len(forecast_df) = 1

\* the rows of the inventory table the dashboard has loaded whose ingredient
\* has a row in the loaded forecast table, in the table's order
Stocked ==
    SelectSeq(dashboard_data[1].inventory_optimization, LAMBDA r :
        \E f \in Range(dashboard_data[1].forecasting_data) :
            f.ingredient = r.ingredient)

\* the loaded forecast_next_month of an ingredient
ForecastFor(g) ==
    (CHOOSE f \in Range(dashboard_data[1].forecasting_data) :
        f.ingredient = g).forecast_next_month

\* x = 0.8 * y, by cross-multiplication on the parts of the two values
EightTenths(x, y) ==
    /\ x # NaN /\ y # NaN
    /\ 10 * x[1].rat.num * y[1].rat.den = 8 * y[1].rat.num * x[1].rat.den
    /\ 10 * x[1].coef.num * y[1].coef.den = 8 * y[1].coef.num * x[1].coef.den
    /\ x[1].rad = y[1].rad

\* days * forecast / 30 = 0.8 * y: the days of supply of a stock of 0.8 * y
SupplyOfEightTenths(days, forecast, y) ==
    /\ days # NaN /\ y # NaN
    /\ days[1].rat.num * forecast.num * y[1].rat.den
         = 24 * y[1].rat.num * days[1].rat.den * forecast.den
    /\ days[1].coef.num * forecast.num * y[1].coef.den
         = 24 * y[1].coef.num * days[1].coef.den * forecast.den
    /\ days[1].rad = y[1].rad

\* C25: on the Inventory Management page the current_inventory of every row
\* is 0.8 times the reorder_point of the ingredient's saved inventory row; on
\* the Overview page, which keeps only status and days_of_supply, the days of
\* supply are those of a stock of 0.8 times the reorder_point.
C25_CurrentInventory ==
    /\ page = "Inventory Management" =>
         /\ Len(inventory_status) = Len(Stocked)
         /\ \A k \in DOMAIN inventory_status :
              /\ inventory_status[k].ingredient = Stocked[k].ingredient
              /\ inventory_status[k].reorder_point = Stocked[k].reorder_point
              /\ EightTenths(inventory_status[k].current_inventory,
                             Stocked[k].reorder_point)
    /\ page = "Overview" =>
         /\ Len(inventory_status) = Len(Stocked)
         /\ \A k \in DOMAIN inventory_status :
              LET forecast == ForecastFor(Stocked[k].ingredient)
              IN IF forecast.num > 0
                 THEN SupplyOfEightTenths(inventory_status[k].days_of_supply,
                                          forecast, Stocked[k].reorder_point)
                 ELSE inventory_status[k].days_of_supply = Some(FromRat(Rat(999)))

\* the Inventory Management page shows two ingredients, one of them with a
\* reorder point that has a deviation in it
C25_Witness ==
    /\ page = "Inventory Management"
    /\ Len(inventory_status) = 2
    /\ \E r \in Range(inventory_status) :
         /\ r.reorder_point[1].coef.num > 0
         /\ r.current_inventory[1].coef.num > 0
         /\ r.current_inventory # r.reorder_point

\* x > 0 for a value whose parts are not negative
AboveZero(x) ==
    /\ x # NaN
    /\ x[1].rat.num >= 0 /\ x[1].coef.num >= 0
    /\ x[1].rat.num > 0 \/ x[1].coef.num > 0

\* C26: on both pages no row has status "Good"; the status is "Low" when the
\* ingredient's reorder_point is above 0 and "Critical" when it is not.
C26_NeverGood ==
    page \in {"Overview", "Inventory Management"} =>
        /\ Len(inventory_status) = Len(Stocked)
        /\ \A k \in DOMAIN inventory_status :
             /\ inventory_status[k].status # "Good"
             /\ inventory_status[k].status = "Low"
                    <=> AboveZero(Stocked[k].reorder_point)
             /\ inventory_status[k].status = "Critical"
                    <=> ~AboveZero(Stocked[k].reorder_point)

\* the Overview page counts one "Critical" ingredient, with a reorder point of
\* 0, and one "Low"
C26_Witness ==
    /\ page = "Overview"
    /\ health_score = Some(70)
    /\ \E k \in DOMAIN inventory_status :
         /\ inventory_status[k].status = "Critical"
         /\ Stocked[k].reorder_point = Some(FromRat(Rat(0)))
    /\ \E k \in DOMAIN inventory_status : inventory_status[k].status = "Low"

\* the aggregate table section 2 computes from a sales table and the recipes
\* of the run
AggregatesOf(sales) ==
    SortByMonthOrder(GroupBy(ConsumptionLoop(MergeSales(sales, ingredient_usage))))

\* the sales table with its rows in another order
Reordered(sales) ==
    {[i \in DOMAIN sales |-> sales[p[i]]] : p \in Permutations(DOMAIN sales)}

\* the sales table with row i replaced by two rows of the same month and
\* item whose Count and Amount add up to the row's
SplitAt(sales, i) ==
    {SubSeq(sales, 1, i - 1)
        \o <<[sales[i] EXCEPT !.Count = c, !.Amount = a],
             [sales[i] EXCEPT !.Count = sales[i].Count - c,
                              !.Amount = sales[i].Amount - a]>>
        \o SubSeq(sales, i + 1, Len(sales)) :
        c \in 0..sales[i].Count, a \in 0..sales[i].Amount}

\* C30: the aggregate rows and their order are those of the sales rows taken
\* in any other order, and those of the table in which one sales row is
\* replaced by two rows of the same month and item with the same total
\* units and revenue.
C30_OrderAndSplitInvariant ==
    pc = "consumption" =>
        /\ \A sales \in Reordered(monthly_sales_item) :
             AggregatesOf(sales) = monthly_consumption
        /\ \A i \in DOMAIN monthly_sales_item :
             \A sales \in SplitAt(monthly_sales_item, i) :
                 AggregatesOf(sales) = monthly_consumption

\* sales rows of two items in the same month are aggregated into one rice
\* row: the other order of the rows is another table, and a row of MaxCount
\* units can be split
C30_Witness ==
    /\ pc = "consumption"
    /\ Len(monthly_sales_item) = MaxSales
    /\ \E i, j \in DOMAIN monthly_sales_item :
         /\ monthly_sales_item[i].month = "May"
         /\ monthly_sales_item[j].month = "May"
         /\ monthly_sales_item[i].level_name # monthly_sales_item[j].level_name
         /\ monthly_sales_item[i].Count = MaxCount
    /\ monthly_consumption[1].month = "May"
    /\ monthly_consumption[1].ingredient = "ramen_count"
    /\ \E r \in Range(monthly_consumption) :
         r.month = "May" /\ r.ingredient = "rice_g" /\ r.sales_count > MaxCount

====
